---- MODULE Spec2Model ----
(***************************************************************************)
(* A model of the ascii-cell simulation engine: the class-based            *)
(* Simulation (cell grid, dirty grid, effect grid, sleep grid, deferred    *)
(* updates, tick() and render()), its Grid store, iterAwake, and the       *)
(* Game-of-Life example's onTick rule.                                     *)
(***************************************************************************)
EXTENDS Integers, Sequences, FiniteSets, TLC

(***************************************************************************)
(* Program constants                                                       *)
(***************************************************************************)
ASLEEP_RATIO == 8

FADE_LENGTH == 8

(***************************************************************************)
(* Bounds of the exploration                                               *)
(***************************************************************************)
MaxTick == 2

MaxOps == 1

MaxQueue == 2

MaxEffects == 2

(***************************************************************************)
(* Input sets                                                              *)
(***************************************************************************)
Rect(x, y, w, h) == [x |-> x, y |-> y, width |-> w, height |-> h]

\* the rectangles the bounds option (or bounds function) may produce
Rects == { Rect(0, 0, 16, 1), Rect(0, 0, 12, 1), Rect(4, 0, 8, 1) }

\* the cells whose onTick callbacks do more than return SLEEP
Probes == { <<7, 0>>, <<8, 0>> }

\* cell states: the State type of the Game-of-Life example; "g" stands for
\* any character of newCell()'s alphabet
Dead == [alive |-> FALSE, char |-> " "]

Alive == [alive |-> TRUE, char |-> "g"]

defaultState == Dead

\* the transforms handed to update(): the two closures of the example
Transforms == { "kill", "birth" }

ApplyTransform(f, s) ==
    IF f = "kill" THEN [s EXCEPT !.alive = FALSE]
    ELSE IF s.char = " " THEN Alive
    ELSE [s EXCEPT !.alive = TRUE]

\* the state a cell holding `state` takes when the transforms that the queue
\* `acts` holds for (x, y) are applied to it one after the other
RECURSIVE Compose(_, _, _, _)
Compose(acts, x, y, state) ==
    IF acts = <<>> THEN state
    ELSE Compose(Tail(acts), x, y,
                 IF Head(acts)[1] = x /\ Head(acts)[2] = y
                 THEN ApplyTransform(Head(acts)[3], state) ELSE state)

(***************************************************************************)
(* Arithmetic helpers                                                      *)
(***************************************************************************)
\* Math.floor(a / b) and Math.ceil(a / b) for integer a and positive b
FloorDiv(a, b) == a \div b

CeilDiv(a, b) == (a + b - 1) \div b

(***************************************************************************)
(* Grid<T>                                                                 *)
(***************************************************************************)
GridFill(rect, fill) ==
    [left |-> rect.x, top |-> rect.y, width |-> rect.width, height |-> rect.height,
     data |-> [i \in 1..(rect.width * rect.height) |-> fill]]

getRect(g) == Rect(g.left, g.top, g.width, g.height)

\* the bounds test shared by Grid.get and Grid.set
GridIn(g, x, y) ==
    ~ (x - g.left < 0 \/ y - g.top < 0 \/ x - g.left >= g.width \/ y - g.top >= g.height)

\* Grid.get for an in-bounds coordinate (out of bounds it returns null: ~GridIn)
GridAt(g, x, y) == g.data[(y - g.top) * g.width + (x - g.left) + 1]

\* Grid.set writing without its bounds test
GridSet_unchecked(g, x, y, value) ==
    IF (y - g.top) * g.width + (x - g.left) + 1 \in DOMAIN g.data
    THEN [g EXCEPT !.data[(y - g.top) * g.width + (x - g.left) + 1] = value]
    ELSE g

\* Grid.set: the grid afterwards (unchanged when out of bounds, where it returns false)
GridSet(g, x, y, value) ==
    IF GridIn(g, x, y)
    THEN [g EXCEPT !.data[(y - g.top) * g.width + (x - g.left) + 1] = value]
    ELSE g

\* the blit keeping only the truthy values of the old grid
GridBlit_truthy(rect, fill, fillDefault) ==
    [left |-> rect.x, top |-> rect.y, width |-> rect.width, height |-> rect.height,
     data |-> [i \in 1..(rect.width * rect.height) |->
                 LET x == ((i - 1) % rect.width) + rect.x
                     y == ((i - 1) \div rect.width) + rect.y
                 IN IF GridIn(fill, x, y) /\ GridAt(fill, x, y) # 0
                    THEN GridAt(fill, x, y) ELSE fillDefault]]

\* new Grid(rect, blitFrom, fillDefault)
GridBlit(rect, fill, fillDefault) ==
    [left |-> rect.x, top |-> rect.y, width |-> rect.width, height |-> rect.height,
     data |-> [i \in 1..(rect.width * rect.height) |->
                 LET x == ((i - 1) % rect.width) + rect.x
                     y == ((i - 1) \div rect.width) + rect.y
                 IN IF GridIn(fill, x, y) THEN GridAt(fill, x, y) ELSE fillDefault]]

rectsEqual(left, right) ==
    /\ left.x = right.x
    /\ left.y = right.y
    /\ left.width = right.width
    /\ left.height = right.height

divideRect(rect, by) ==
    Rect(FloorDiv(rect.x, by), FloorDiv(rect.y, by),
         CeilDiv(rect.width, by), CeilDiv(rect.height, by))

(***************************************************************************)
(* Effects: objects of the heap `fx`, referred to by their index           *)
(***************************************************************************)
\* new FadeEffect(...) and other SimulationEffect objects: progress 0
NewEffect(length, cells) == [tick |-> 0, length |-> length, cells |-> cells]

\* FadeEffect.done
done(e) == e.tick >= e.length

\* FadeEffect.nextTick
nextTick(e) == [e EXCEPT !.tick = @ + 1]

\* effects.splice(i, 1) for every done effect of a list
RECURSIVE PruneDone(_, _)
PruneDone(fx, list) ==
    IF list = <<>> THEN <<>>
    ELSE IF done(fx[Head(list)]) THEN PruneDone(fx, Tail(list))
    ELSE <<Head(list)>> \o PruneDone(fx, Tail(list))

(***************************************************************************)
(* Simulation: the object is the record `sim`                              *)
(***************************************************************************)
\* constructor, before onInit
NewSimulation(bounds, initialDirty, initialSleepy) ==
    [cells |-> GridFill(bounds, defaultState),
     dirty |-> GridFill(bounds, initialDirty),
     effectGrid |-> GridFill(bounds, <<>>),
     asleep |-> GridFill(divideRect(bounds, ASLEEP_RATIO), initialSleepy),
     effects |-> <<>>,
     actions |-> <<>>,
     previousCanvas |-> "null",
     previousRect |-> <<>>,
     globalDirty |-> initialDirty,
     currentTick |-> 0]

\* resize() building every grid anew instead of copying the old content
resize_reset(s, opt, newBounds) ==
    [s EXCEPT !.cells = GridFill(newBounds, defaultState),
              !.dirty = GridFill(newBounds, opt.initialDirty),
              !.effectGrid = GridFill(newBounds, <<>>),
              !.asleep = GridFill(divideRect(newBounds, ASLEEP_RATIO), opt.initialSleepy),
              !.globalDirty = TRUE]

resize(s, opt, newBounds) ==
    [s EXCEPT !.cells = GridBlit(newBounds, s.cells, defaultState),
              !.dirty = GridBlit(newBounds, s.dirty, opt.initialDirty),
              !.effectGrid = GridBlit(newBounds, s.effectGrid, <<>>),
              !.asleep = GridBlit(divideRect(newBounds, ASLEEP_RATIO), s.asleep, opt.initialSleepy),
              !.globalDirty = TRUE]

\* set() as the function-based simulation() has it: the block is not woken
set_nowake(s, x, y, state) ==
    [s EXCEPT !.cells = GridSet(@, x, y, state),
              !.dirty = GridSet(@, x, y, TRUE),
              !.globalDirty = TRUE]

\* set() counting as a tick
set_ticking(s, x, y, state) ==
    [s EXCEPT !.cells = GridSet(@, x, y, state),
              !.dirty = GridSet(@, x, y, TRUE),
              !.asleep = GridSet(@, FloorDiv(x, ASLEEP_RATIO), FloorDiv(y, ASLEEP_RATIO), FALSE),
              !.globalDirty = TRUE,
              !.currentTick = @ + 1]

set(s, x, y, state) ==
    [s EXCEPT !.cells = GridSet(@, x, y, state),
              !.dirty = GridSet(@, x, y, TRUE),
              !.asleep = GridSet(@, FloorDiv(x, ASLEEP_RATIO), FloorDiv(y, ASLEEP_RATIO), FALSE),
              !.globalDirty = TRUE]

\* get() looking through the queue of pending updates
get_pending(s, x, y) ==
    IF GridIn(s.cells, x, y)
    THEN Compose(s.actions, x, y, GridAt(s.cells, x, y))
    ELSE defaultState

\* get() without the bounds test of Grid.get: a coordinate outside the grid
\* reads the cell it wraps around to
get_wrapped(s, x, y) ==
    GridAt(s.cells, s.cells.left + ((x - s.cells.left) % s.cells.width),
                    s.cells.top + ((y - s.cells.top) % s.cells.height))

get(s, x, y) == IF GridIn(s.cells, x, y) THEN GridAt(s.cells, x, y) ELSE defaultState

\* update() applying the transform at once instead of queueing it
update_immediate(s, x, y, callback) ==
    IF GridIn(s.cells, x, y)
    THEN [s EXCEPT !.cells = GridSet(@, x, y, ApplyTransform(callback, GridAt(s.cells, x, y))),
                   !.dirty = GridSet(@, x, y, TRUE)]
    ELSE s

update(s, x, y, callback) == [s EXCEPT !.actions = Append(@, <<x, y, callback>>)]

\* the loop of addEffect without the write to the sleep grid
RECURSIVE AddEffectCells_nowake(_, _, _)
AddEffectCells_nowake(s, e, cs) ==
    IF cs = <<>> THEN s
    ELSE LET x == Head(cs)[1]
             y == Head(cs)[2]
         IN AddEffectCells_nowake(
              [s EXCEPT !.effectGrid = IF GridIn(@, x, y)
                                       THEN GridSet(@, x, y, Append(GridAt(@, x, y), e))
                                       ELSE @],
              e, Tail(cs))

\* the loop of addEffect over effect.affectedCells()
RECURSIVE AddEffectCells(_, _, _)
AddEffectCells(s, e, cs) ==
    IF cs = <<>> THEN s
    ELSE LET x == Head(cs)[1]
             y == Head(cs)[2]
             pushed == IF GridIn(s.effectGrid, x, y)
                       THEN GridSet(s.effectGrid, x, y, Append(GridAt(s.effectGrid, x, y), e))
                       ELSE s.effectGrid
         IN AddEffectCells(
              [s EXCEPT !.effectGrid = pushed,
                        !.asleep = GridSet(@, FloorDiv(x, ASLEEP_RATIO), FloorDiv(y, ASLEEP_RATIO), FALSE)],
              e, Tail(cs))

\* addEffect() without the test of effect.done()
addEffect_unchecked(s, fx, e) ==
    [AddEffectCells([s EXCEPT !.effects = Append(@, e)], e, fx[e].cells)
        EXCEPT !.globalDirty = TRUE]

addEffect(s, fx, e) ==
    IF done(fx[e]) THEN s
    ELSE [AddEffectCells([s EXCEPT !.effects = Append(@, e)], e, fx[e].cells)
            EXCEPT !.globalDirty = TRUE]

\* clearEffects() that also drops the cell's effects from the global list
clearEffects_global(s, x, y) ==
    [s EXCEPT !.effectGrid = IF GridIn(@, x, y) THEN GridSet(@, x, y, <<>>) ELSE @,
              !.effects = IF GridIn(s.effectGrid, x, y)
                          THEN SelectSeq(@, LAMBDA e : e \notin { GridAt(s.effectGrid, x, y)[i] :
                                                                   i \in DOMAIN GridAt(s.effectGrid, x, y) })
                          ELSE @,
              !.globalDirty = TRUE]

clearEffects(s, x, y) ==
    [s EXCEPT !.effectGrid = IF GridIn(@, x, y) THEN GridSet(@, x, y, <<>>) ELSE @,
              !.globalDirty = TRUE]

getEffects(s, x, y) == IF GridIn(s.effectGrid, x, y) THEN GridAt(s.effectGrid, x, y) ELSE <<>>

getTick(s) == s.currentTick

(***************************************************************************)
(* The handle operations an onTick callback (or the host) performs         *)
(***************************************************************************)
Op(op, x, y, arg) == [op |-> op, x |-> x, y |-> y, arg |-> arg]

\* one call through the handle; addEffect is handed a freshly built effect
RunOp(st, o) ==
    CASE o.op = "set" -> [sim |-> set(st.sim, o.x, o.y, o.arg), fx |-> st.fx]
      [] o.op = "update" -> [sim |-> update(st.sim, o.x, o.y, o.arg), fx |-> st.fx]
      [] o.op = "clearEffects" -> [sim |-> clearEffects(st.sim, o.x, o.y), fx |-> st.fx]
      [] o.op = "addEffect" ->
            LET fx2 == Append(st.fx, NewEffect(o.arg.length, o.arg.cells))
            IN [sim |-> addEffect(st.sim, fx2, Len(fx2)), fx |-> fx2]

RECURSIVE RunOps(_, _)
RunOps(st, ops) ==
    IF ops = <<>> THEN st ELSE RunOps(RunOp(st, Head(ops)), Tail(ops))

(***************************************************************************)
(* tick(): effect advance                                                  *)
(***************************************************************************)
\* for (const effect of this.effects) effect.nextTick()
RECURSIVE AdvanceEffects(_, _)
AdvanceEffects(fx, list) ==
    IF list = <<>> THEN fx
    ELSE AdvanceEffects([fx EXCEPT ![Head(list)] = nextTick(@)], Tail(list))

\* the effect advance of tick() without the removal of the done effects
TickEffects_noPrune(st) ==
    [sim |-> [st.sim EXCEPT !.globalDirty = TRUE],
     fx |-> AdvanceEffects(st.fx, st.sim.effects)]

\* the start of tick() without the write of _globalDirty
TickEffects_quiet(st) ==
    LET fx2 == AdvanceEffects(st.fx, st.sim.effects)
    IN [sim |-> [st.sim EXCEPT !.effects = PruneDone(fx2, @)],
        fx |-> fx2]

TickEffects(st) ==
    LET fx2 == AdvanceEffects(st.fx, st.sim.effects)
    IN [sim |-> [st.sim EXCEPT !.globalDirty = TRUE, !.effects = PruneDone(fx2, @)],
        fx |-> fx2]

(***************************************************************************)
(* iterAwake: the sweep over the awake blocks                              *)
(***************************************************************************)
\* the block of the sleep grid with row-major index b
BlockX(asl, b) == asl.left + (b % asl.width)

BlockY(asl, b) == asl.top + (b \div asl.width)

\* the cell with index k (dy * ratio + dx) of block b
CellX(asl, b, k) == BlockX(asl, b) * ASLEEP_RATIO + (k % ASLEEP_RATIO)

CellY(asl, b, k) == BlockY(asl, b) * ASLEEP_RATIO + (k \div ASLEEP_RATIO)

BlockCells == ASLEEP_RATIO * ASLEEP_RATIO

\* The loops of iterAwake from position (b, k) up to the next cell the
\* callback is called on: blocks marked asleep are skipped, a block entered
\* is marked asleep (resetAsleep), coordinates outside `cells` are skipped.
RECURSIVE Scan(_, _, _, _)
Scan(asl, cells, b, k) ==
    IF k < BlockCells
    THEN IF CellY(asl, b, k) < cells.top \/ CellY(asl, b, k) >= cells.top + cells.height
         THEN Scan(asl, cells, b, ((k \div ASLEEP_RATIO) + 1) * ASLEEP_RATIO)
         ELSE IF GridIn(cells, CellX(asl, b, k), CellY(asl, b, k))
         THEN [found |-> TRUE, asleep |-> asl, blk |-> b, k |-> k]
         ELSE Scan(asl, cells, b, k + 1)
    ELSE IF b + 1 >= asl.width * asl.height
         THEN [found |-> FALSE, asleep |-> asl, blk |-> b + 1, k |-> BlockCells]
         ELSE IF GridAt(asl, BlockX(asl, b + 1), BlockY(asl, b + 1))
              THEN Scan(asl, cells, b + 1, BlockCells)
              ELSE Scan(GridSet(asl, BlockX(asl, b + 1), BlockY(asl, b + 1), TRUE),
                        cells, b + 1, 0)

\* wakeAt: the set awakeMetacells after wakeAt(x, y)
wakeAt(asl, awake, x, y) ==
    LET gx == FloorDiv(x, ASLEEP_RATIO)
        gy == FloorDiv(y, ASLEEP_RATIO)
    IN IF \/ gx < asl.left
          \/ gx >= asl.left + asl.width
          \/ gy < asl.top
          \/ gy >= asl.top + asl.height
       THEN awake
       ELSE awake \cup { (gx - asl.left) + (gy - asl.top) * asl.width }

wakeMetaradius(wakeRadius) == CeilDiv(wakeRadius, ASLEEP_RATIO)

\* the final loop of iterAwake: every block within the meta-radius of a
\* block that stayed awake is marked awake
WakeAround(asl, awake, radius) ==
    [asl EXCEPT !.data = [i \in DOMAIN asl.data |->
        LET gx == ((i - 1) % asl.width) + asl.left
            gy == ((i - 1) \div asl.width) + asl.top
        IN IF \E index \in awake :
                LET x == (index % asl.width) + asl.left
                    y == (index \div asl.width) + asl.top
                IN /\ gx >= x - wakeMetaradius(radius) /\ gx <= x + wakeMetaradius(radius)
                   /\ gy >= y - wakeMetaradius(radius) /\ gy <= y + wakeMetaradius(radius)
           THEN FALSE
           ELSE asl.data[i]]]

(***************************************************************************)
(* tick(): the callback handed to iterAwake                                *)
(***************************************************************************)
\* the callback taking every return value of onTick for "stay awake"
TickCallback_noSleep(st, x, y, result) ==
    LET s == st.sim
        hasEffects == Len(s.effects) > 0
        s1 == IF hasEffects THEN [s EXCEPT !.dirty = GridSet(@, x, y, TRUE)] ELSE s
        s2 == [s1 EXCEPT !.effects = PruneDone(st.fx, @)]
        after == RunOps([sim |-> s2, fx |-> st.fx], result.ops)
    IN [sim |-> after.sim, fx |-> after.fx, stayAwake |-> TRUE]

\* `result` is what onTick did for the cell: the calls it made through the
\* handle and whether it returned SLEEP
TickCallback(st, x, y, result) ==
    LET s == st.sim
        hasEffects == Len(s.effects) > 0
        s1 == IF hasEffects THEN [s EXCEPT !.dirty = GridSet(@, x, y, TRUE)] ELSE s
        s2 == [s1 EXCEPT !.effects = PruneDone(st.fx, @)]
        after == RunOps([sim |-> s2, fx |-> st.fx], result.ops)
    IN [sim |-> after.sim, fx |-> after.fx, stayAwake |-> hasEffects \/ ~ result.sleep]

(***************************************************************************)
(* tick(): the update-application phase                                    *)
(***************************************************************************)
\* the application taking the queue from its end
RECURSIVE ApplyActions_lifo(_, _)
ApplyActions_lifo(s, acts) ==
    IF acts = <<>> THEN s
    ELSE LET a == acts[Len(acts)]
         IN IF GridIn(s.cells, a[1], a[2])
            THEN ApplyActions_lifo(
                   [s EXCEPT !.cells = GridSet(@, a[1], a[2], ApplyTransform(a[3], GridAt(s.cells, a[1], a[2]))),
                             !.dirty = GridSet(@, a[1], a[2], TRUE),
                             !.asleep = GridSet(@, FloorDiv(a[1], ASLEEP_RATIO),
                                                FloorDiv(a[2], ASLEEP_RATIO), FALSE)],
                   SubSeq(acts, 1, Len(acts) - 1))
            ELSE ApplyActions_lifo(s, SubSeq(acts, 1, Len(acts) - 1))

\* the application waking the block of an update whatever cells.get returns
RECURSIVE ApplyActions_wake(_, _)
ApplyActions_wake(s, acts) ==
    IF acts = <<>> THEN s
    ELSE LET x == Head(acts)[1]
             y == Head(acts)[2]
             cb == Head(acts)[3]
             woken == [s EXCEPT !.asleep = GridSet(@, FloorDiv(x, ASLEEP_RATIO),
                                                   FloorDiv(y, ASLEEP_RATIO), FALSE)]
         IN IF GridIn(s.cells, x, y)
            THEN ApplyActions_wake(
                   [woken EXCEPT !.cells = GridSet(@, x, y, ApplyTransform(cb, GridAt(s.cells, x, y))),
                                 !.dirty = GridSet(@, x, y, TRUE)],
                   Tail(acts))
            ELSE ApplyActions_wake(woken, Tail(acts))

RECURSIVE ApplyActions(_, _)
ApplyActions(s, acts) ==
    IF acts = <<>> THEN s
    ELSE LET x == Head(acts)[1]
             y == Head(acts)[2]
             cb == Head(acts)[3]
         IN IF GridIn(s.cells, x, y)
            THEN ApplyActions(
                   [s EXCEPT !.cells = GridSet(@, x, y, ApplyTransform(cb, GridAt(s.cells, x, y))),
                             !.dirty = GridSet(@, x, y, TRUE),
                             !.asleep = GridSet(@, FloorDiv(x, ASLEEP_RATIO),
                                                FloorDiv(y, ASLEEP_RATIO), FALSE)],
                   Tail(acts))
            ELSE ApplyActions(s, Tail(acts))

(***************************************************************************)
(* The Game-of-Life example: GOLSimulation.onTick                          *)
(***************************************************************************)
NEIGHBORHOOD ==
    { d \in {-1, 0, 1} \X {-1, 0, 1} : d[1] # 0 \/ d[2] # 0 }

GOLNeighbors(s, x, y) ==
    Cardinality({ d \in NEIGHBORHOOD : get(s, x + d[1], y + d[2]).alive })

GOLOnTick(s, state, x, y) ==
    LET neighbors == GOLNeighbors(s, x, y)
        ops == IF state.alive /\ (neighbors < 2 \/ neighbors > 3)
               THEN << Op("update", x, y, "kill"),
                       Op("addEffect", x, y, [length |-> FADE_LENGTH, cells |-> << <<x, y>> >>]) >>
               ELSE IF ~ state.alive /\ neighbors = 3
               THEN << Op("update", x, y, "birth"), Op("clearEffects", x, y, "none") >>
               ELSE << >>
    IN [ops |-> ops, sleep |-> ~ state.alive /\ neighbors = 0]

(***************************************************************************)
(* render(): renderDirty / renderAll / renderSingle                        *)
(***************************************************************************)
InRect(rect, x, y) ==
    /\ x >= rect.x /\ x < rect.x + rect.width
    /\ y >= rect.y /\ y < rect.y + rect.height

GridCoordX(g, i) == ((i - 1) % g.width) + g.left

GridCoordY(g, i) == ((i - 1) \div g.width) + g.top

\* the cells renderSingle is called on: every in-bounds cell of the rect
\* (renderAll), or those whose dirty flag is set (renderDirty)
RenderedCells(s, rect, all) ==
    { c \in { <<GridCoordX(s.dirty, i), GridCoordY(s.dirty, i)>> : i \in DOMAIN s.dirty.data } :
        InRect(rect, c[1], c[2]) /\ (all \/ GridAt(s.dirty, c[1], c[2])) }

\* renderDirty and renderAll waking the sleep block of every cell they render
RenderCells_wake(s, fx, rect, all) ==
    LET cs == RenderedCells(s, rect, all)
    IN [s EXCEPT
          !.dirty.data = [i \in DOMAIN @ |->
              IF <<GridCoordX(s.dirty, i), GridCoordY(s.dirty, i)>> \in cs THEN FALSE ELSE @[i]],
          !.asleep.data = [i \in DOMAIN @ |->
              IF \E c \in cs : /\ FloorDiv(c[1], ASLEEP_RATIO) = GridCoordX(s.asleep, i)
                                /\ FloorDiv(c[2], ASLEEP_RATIO) = GridCoordY(s.asleep, i)
              THEN FALSE ELSE @[i]]]

\* renderDirty and renderAll: the dirty flag of every rendered cell is
\* cleared, renderSingle drops the done effects of its list
RenderCells(s, fx, rect, all) ==
    LET cs == RenderedCells(s, rect, all)
    IN [s EXCEPT
          !.dirty.data = [i \in DOMAIN @ |->
              IF <<GridCoordX(s.dirty, i), GridCoordY(s.dirty, i)>> \in cs THEN FALSE ELSE @[i]],
          !.effectGrid.data = [i \in DOMAIN @ |->
              IF <<GridCoordX(s.effectGrid, i), GridCoordY(s.effectGrid, i)>> \in cs
              THEN PruneDone(fx, @[i]) ELSE @[i]],
          !.globalDirty = FALSE]

\* render(canvas, font, rectOpt, _rerender); rectOpt is <<>> when omitted
render(s, fx, opt, canvas, rectOpt, rerenderArg) ==
    LET rect == IF rectOpt = <<>> THEN getRect(s.cells) ELSE rectOpt[1]
    IN IF s.previousCanvas = "null"
       THEN RenderCells([s EXCEPT !.previousCanvas = canvas, !.previousRect = <<rect>>],
                        fx, rect, FALSE)
       ELSE LET rectChanged == s.previousRect = <<>> \/ ~ rectsEqual(s.previousRect[1], rect)
                canvasChanged == canvas # s.previousCanvas
                rerender == rerenderArg \/ rectChanged \/ canvasChanged
                s1 == [s EXCEPT !.previousRect = IF rectChanged THEN <<rect>> ELSE @,
                                !.previousCanvas = IF canvasChanged THEN canvas ELSE @]
            IN IF rerender \/ opt.alwaysRender
               THEN RenderCells(s1, fx, rect, TRUE)
               ELSE IF s1.globalDirty THEN RenderCells(s1, fx, rect, FALSE)
               ELSE s1

(***************************************************************************)
(* State                                                                   *)
(***************************************************************************)
VARIABLES
    sim,        \* the Simulation object
    fx,         \* the effect objects created so far
    opt,        \* the options the simulation was constructed with
    pc,         \* where tick() stands: "idle" (not running), "sweep", "resize", "apply"
    it,         \* the locals of iterAwake: position and awakeMetacells
    tickStart,  \* history: the Simulation object when the running tick() was called
    preApply,   \* history: the Simulation object before the last update application
    visits,     \* history: the onTick calls of this tick, in order
    touched,    \* history: the writes and effect registrations since tick() was last called
    prev,       \* history: the quiet blocks and the writes of the tick before
    last,       \* history: the last step and the handle calls it made
    cbSet,      \* history: an onTick callback of this tick called set()
    dropped,    \* history: the cells whose state a resize has discarded
    nOps        \* number of host and callback operations performed

vars == <<sim, fx, opt, pc, it, tickStart, preApply, visits, touched, prev, last, cbSet, dropped, nOps>>

\* wakeRadius, initialStateIsClean (negated), initialStateSleep,
\* debug.alwaysRender, and the rectangles simulationBounds() may return
Options(wakeRadius, initialDirty, initialSleepy, alwaysRender, bounds) ==
    [wakeRadius |-> wakeRadius, initialDirty |-> initialDirty,
     initialSleepy |-> initialSleepy, alwaysRender |-> alwaysRender, bounds |-> bounds]

Last(who, ops) == [who |-> who, ops |-> ops]

\* one call of onTick: the cell, whether it returned SLEEP, whether the
\* cell's effect list and the simulation's effect list held anything
Visit(x, y, sleep, effects, pending) ==
    [x |-> x, y |-> y, sleep |-> sleep, effects |-> effects, pending |-> pending]

BlockOf(x, y) == <<FloorDiv(x, ASLEEP_RATIO), FloorDiv(y, ASLEEP_RATIO)>>

SeqRange(q) == { q[i] : i \in DOMAIN q }

\* the blocks of the sleep grid, as <<gx, gy>>
Blocks(asl) ==
    { <<gx, gy>> : gx \in asl.left..(asl.left + asl.width - 1),
                   gy \in asl.top..(asl.top + asl.height - 1) }

\* the block b exists and is marked asleep
IsAsleep(s, b) == GridIn(s.asleep, b[1], b[2]) /\ GridAt(s.asleep, b[1], b[2])

\* the in-bounds cells of block b
CellsOf(s, b) ==
    { c \in (b[1] * ASLEEP_RATIO..(b[1] * ASLEEP_RATIO + ASLEEP_RATIO - 1))
            \X (b[2] * ASLEEP_RATIO..(b[2] * ASLEEP_RATIO + ASLEEP_RATIO - 1)) :
        GridIn(s.cells, c[1], c[2]) }

\* blocks a and b are at most ceil(wakeRadius / ratio) blocks apart
Near(a, b) ==
    LET m == wakeMetaradius(opt.wakeRadius)
    IN /\ b[1] >= a[1] - m /\ b[1] <= a[1] + m
       /\ b[2] >= a[2] - m /\ b[2] <= a[2] + m

\* the blocks a sequence of handle calls writes to or registers effects on
Touches(ops) ==
    UNION { IF ops[i].op = "set"
            THEN { [op |-> "set", block |-> BlockOf(ops[i].x, ops[i].y)] }
            ELSE IF ops[i].op = "addEffect"
            THEN { [op |-> "addEffect", block |-> BlockOf(c[1], c[2])] :
                     c \in SeqRange(ops[i].arg.cells) }
            ELSE {} : i \in DOMAIN ops }

\* the blocks the update application writes to
Applies(s) ==
    { [op |-> "update", block |-> BlockOf(a[1], a[2])] :
        a \in { b \in SeqRange(s.actions) : GridIn(s.cells, b[1], b[2]) } }

\* the cells of the grid holding a state other than the default that lie
\* outside newBounds: what new Grid(newBounds, this.cells, ...) does not copy
Discarded(s, newBounds) ==
    { c \in { <<GridCoordX(s.cells, i), GridCoordY(s.cells, i)>> : i \in DOMAIN s.cells.data } :
        ~ InRect(newBounds, c[1], c[2]) /\ GridAt(s.cells, c[1], c[2]) # defaultState }

VisitedBlocks == { BlockOf(v.x, v.y) : v \in SeqRange(visits) }

\* the blocks visited in this tick all of whose cells returned SLEEP, no
\* block within the wake radius holding a cell that did not
QuietBlocks ==
    LET awakeBlocks == { BlockOf(v.x, v.y) : v \in { w \in SeqRange(visits) : ~ w.sleep } }
    IN { b \in VisitedBlocks : ~ \E a \in awakeBlocks : Near(a, b) }

InitWith(bounds, o) ==
    /\ opt = o
    /\ sim = NewSimulation(bounds, o.initialDirty, o.initialSleepy)
    /\ fx = <<>>
    /\ pc = "idle"
    /\ it = [blk |-> 0, k |-> 0, awake |-> {}]
    /\ tickStart = NewSimulation(bounds, o.initialDirty, o.initialSleepy)
    /\ preApply = NewSimulation(bounds, o.initialDirty, o.initialSleepy)
    /\ visits = <<>>
    /\ touched = {}
    /\ prev = [quiet |-> {}, touched |-> {}]
    /\ last = Last("new", <<>>)
    /\ cbSet = FALSE
    /\ dropped = {}
    /\ nOps = 0

\* the option sets explored by the general specification: fixed bounds with
\* wakeRadius 0, and a bounds function with wakeRadius 1 and initialStateSleep
Configs ==
    { Options(0, TRUE, FALSE, FALSE, {r}) : r \in Rects }
    \cup { Options(1, TRUE, TRUE, FALSE, { Rect(0, 0, 16, 1), Rect(0, 0, 12, 1) }) }

Init == \E o \in Configs : \E bounds \in o.bounds : InitWith(bounds, o)

(***************************************************************************)
(* Host operations, between ticks                                          *)
(***************************************************************************)
\* the effects the host or a callback may build
EffectShapes ==
    { [length |-> 1, cells |-> << <<8, 0>> >>],
      [length |-> 2, cells |-> << <<7, 0>>, <<13, 0>> >>] }

HandleOps ==
    { Op("update", p[1], p[2], f) : p \in { <<7, 0>>, <<8, 0>> }, f \in Transforms }
    \cup { Op("clearEffects", 8, 0, "none") }
    \cup { Op("addEffect", 0, 0, e) : e \in EffectShapes }

SetOps == { Op("set", p[1], p[2], Alive) : p \in { <<8, 0>>, <<13, 0>> } }

\* the queue and the effect heap stay within the bounds of the exploration
CallsAllowed(s, f, ops) ==
    /\ Len(s.actions) + Cardinality({ i \in DOMAIN ops : ops[i].op = "update" }) <= MaxQueue
    /\ Len(f) + Cardinality({ i \in DOMAIN ops : ops[i].op = "addEffect" }) <= MaxEffects

HostOp(o) ==
    /\ pc = "idle"
    /\ nOps < MaxOps
    /\ sim.currentTick < MaxTick
    /\ CallsAllowed(sim, fx, <<o>>)
    /\ LET after == RunOp([sim |-> sim, fx |-> fx], o)
       IN /\ sim' = after.sim
          /\ fx' = after.fx
    /\ last' = Last("host", <<o>>)
    /\ touched' = touched \cup Touches(<<o>>)
    /\ nOps' = nOps + 1
    /\ UNCHANGED <<opt, pc, it, tickStart, preApply, visits, prev, cbSet, dropped>>

\* the host calls set()
HostSet ==
    /\ pc = "idle"
    /\ \E o \in SetOps : HostOp(o)

\* the host calls update(), addEffect() or clearEffects()
HostHandle ==
    /\ pc = "idle"
    /\ \E o \in HandleOps : HostOp(o)

HostRender ==
    /\ pc = "idle"
    /\ nOps < MaxOps
    /\ sim.currentTick < MaxTick
    /\ \E rerender \in BOOLEAN :
         sim' = render(sim, fx, opt, "canvas", <<>>, rerender)
    /\ last' = Last("host", << Op("render", 0, 0, "none") >>)
    /\ nOps' = nOps + 1
    /\ UNCHANGED <<fx, opt, pc, it, tickStart, preApply, visits, touched, prev, cbSet, dropped>>

(***************************************************************************)
(* tick(), step by step                                                    *)
(***************************************************************************)
\* tick() is called: the effects advance and iterAwake starts
TickBegin(limit) ==
    /\ pc = "idle"
    /\ sim.currentTick < limit
    /\ LET after == TickEffects([sim |-> sim, fx |-> fx])
       IN /\ sim' = after.sim
          /\ fx' = after.fx
    /\ pc' = "sweep"
    /\ it' = [blk |-> -1, k |-> BlockCells, awake |-> {}]
    /\ tickStart' = sim
    /\ prev' = [quiet |-> QuietBlocks, touched |-> touched]
    /\ touched' = {}
    /\ visits' = <<>>
    /\ cbSet' = FALSE
    /\ last' = Last("start", <<>>)
    /\ UNCHANGED <<opt, preApply, dropped, nOps>>

TickStart ==
    /\ pc = "idle"
    /\ TickBegin(MaxTick)

\* the next cell the sweep calls the callback on, if any
NextCell == Scan(sim.asleep, sim.effectGrid, it.blk, it.k)

\* one call of the callback of tick() by iterAwake on the cell found by the
\* scan n, onTick doing `result`; cost is what the call counts for in nOps
SweepCell(n, result, cost) ==
    LET x == CellX(sim.asleep, n.blk, n.k)
        y == CellY(sim.asleep, n.blk, n.k)
        entered == [sim EXCEPT !.asleep = n.asleep]
        r == TickCallback([sim |-> entered, fx |-> fx], x, y, result)
    IN /\ sim' = r.sim
       /\ fx' = r.fx
       /\ it' = [blk |-> n.blk, k |-> n.k + 1,
                 awake |-> IF r.stayAwake THEN wakeAt(entered.asleep, it.awake, x, y)
                           ELSE it.awake]
       /\ visits' = Append(visits, Visit(x, y, result.sleep,
                                         getEffects(entered, x, y) # <<>>,
                                         Len(entered.effects) > 0))
       /\ last' = Last("onTick", result.ops)
       /\ touched' = touched \cup Touches(result.ops)
       /\ cbSet' = (cbSet \/ \E i \in DOMAIN result.ops : result.ops[i].op = "set")
       /\ nOps' = nOps + cost
       /\ UNCHANGED <<opt, pc, tickStart, preApply, prev, dropped>>

\* the end of iterAwake: no cell is left, the blocks around those that
\* stayed awake are woken
SweepEnd ==
    /\ pc = "sweep"
    /\ LET n == NextCell
       IN /\ ~ n.found
          /\ sim' = [sim EXCEPT !.asleep = WakeAround(n.asleep, it.awake, opt.wakeRadius)]
          /\ it' = [it EXCEPT !.blk = n.blk, !.k = n.k]
    /\ pc' = "resize"
    /\ last' = Last("wake", <<>>)
    /\ UNCHANGED <<fx, opt, tickStart, preApply, visits, touched, prev, cbSet, dropped, nOps>>

\* the bounds are evaluated again: the function returns newBounds
TickResize ==
    /\ pc = "resize"
    /\ \E newBounds \in opt.bounds :
         /\ sim' = IF ~ rectsEqual(newBounds, getRect(sim.cells))
                   THEN resize(sim, opt, newBounds) ELSE sim
         /\ dropped' = dropped \cup Discarded(sim, newBounds)
    /\ pc' = "apply"
    /\ last' = Last("resize", <<>>)
    /\ UNCHANGED <<fx, opt, it, tickStart, preApply, visits, touched, prev, cbSet, nOps>>

\* the end of tick() leaving the queue as it is
EndTick_keep(s) == [s EXCEPT !.currentTick = @ + 1]

\* the end of tick(): the queue is emptied, the tick is counted
EndTick(s) == [s EXCEPT !.actions = <<>>, !.currentTick = @ + 1]

\* the updates are applied, the queue is cleared, the tick is counted
TickApply ==
    /\ pc = "apply"
    /\ sim' = EndTick(ApplyActions(sim, sim.actions))
    /\ preApply' = sim
    /\ pc' = "idle"
    /\ touched' = touched \cup Applies(sim)
    /\ last' = Last("apply", <<>>)
    /\ UNCHANGED <<fx, opt, it, tickStart, visits, prev, cbSet, dropped, nOps>>

(***************************************************************************)
(* The onTick callbacks of the general specification                       *)
(***************************************************************************)
AtProbe(n) == <<CellX(sim.asleep, n.blk, n.k), CellY(sim.asleep, n.blk, n.k)>> \in Probes

\* a callback that only reports SLEEP or not (not SLEEP at probe cells only)
OnTickQuiet ==
    /\ pc = "sweep"
    /\ LET n == NextCell
       IN /\ n.found
          /\ \E b \in BOOLEAN :
               /\ b = FALSE => AtProbe(n)
               /\ SweepCell(n, [ops |-> <<>>, sleep |-> b], 0)

\* what a callback may do through the handle: one call, or two updates of
\* the cell to its right
HandleCalls(x, y) ==
    { <<o>> : o \in HandleOps }
    \cup { << Op("update", x + 1, y, f), Op("update", x + 1, y, g) >> :
             f \in Transforms, g \in Transforms }

\* a callback at a probe cell that calls get/update/addEffect/clearEffects
OnTickHandle ==
    /\ pc = "sweep"
    /\ nOps < MaxOps
    /\ LET n == NextCell
       IN /\ n.found
          /\ AtProbe(n)
          /\ \E ops \in HandleCalls(CellX(sim.asleep, n.blk, n.k), CellY(sim.asleep, n.blk, n.k)) :
               /\ CallsAllowed(sim, fx, ops)
               /\ SweepCell(n, [ops |-> ops, sleep |-> TRUE], 1)

\* a callback at a probe cell that calls set(), against the documentation
OnTickSet ==
    /\ pc = "sweep"
    /\ nOps < MaxOps
    /\ LET n == NextCell
       IN /\ n.found
          /\ AtProbe(n)
          /\ \E o \in SetOps :
               SweepCell(n, [ops |-> <<o>>, sleep |-> TRUE], 1)

Next ==
    \/ HostSet
    \/ HostHandle
    \/ HostRender
    \/ TickStart
    \/ OnTickQuiet
    \/ OnTickHandle
    \/ OnTickSet
    \/ SweepEnd
    \/ TickResize
    \/ TickApply

Spec == Init /\ [][Next]_vars

(***************************************************************************)
(* Properties of the deferred updates                                      *)
(***************************************************************************)
\* coordinates inside and outside every rectangle of Rects
Coords == ((-1..16) \X {0}) \cup { <<4, -1>>, <<4, 1>> }

HasSet(ops) == \E i \in DOMAIN ops : ops[i].op = "set"

\* C1: from the call of tick() until its update application, get(x, y)
\* returns for every coordinate what it returned when tick() was called,
\* whatever updates the callbacks of this sweep have queued (no callback of
\* the sweep having called set(); once the bounds have been evaluated again,
\* for the coordinates still inside them).
C1_DeferredGet ==
    /\ (pc \in {"sweep", "resize"} /\ ~ cbSet) =>
          \A c \in Coords : get(sim, c[1], c[2]) = get(tickStart, c[1], c[2])
    /\ (pc = "apply" /\ ~ cbSet) =>
          \A c \in Coords :
             GridIn(sim.cells, c[1], c[2]) => get(sim, c[1], c[2]) = get(tickStart, c[1], c[2])

\* a callback runs on a cell for which an earlier callback of the same sweep
\* queued an update that will change it
C1_Witness ==
    /\ pc = "sweep"
    /\ ~ cbSet
    /\ last.who = "onTick"
    /\ last.ops = <<>>
    /\ \E i \in (Len(tickStart.actions) + 1)..Len(sim.actions) :
         LET a == sim.actions[i]
         IN /\ GridIn(sim.cells, a[1], a[2])
            /\ visits[Len(visits)].x = a[1]
            /\ visits[Len(visits)].y = a[2]
            /\ ApplyTransform(a[3], get(sim, a[1], a[2])) # get(sim, a[1], a[2])

\* C2 (as stated): no call of an onTick callback changes the stored state of
\* a cell: the handle gives it no operation that could.
C2_HandleCannotWrite ==
    [][(pc = "sweep" /\ pc' = "sweep") => sim'.cells = sim.cells]_vars

\* C2 (amended): the handle is the Simulation object, set() included; a
\* callback that calls only get, update, addEffect, clearEffects and
\* getEffects changes the stored state of no cell, only a call of set() does.
C2_OnlySetWrites ==
    [][(pc = "sweep" /\ pc' = "sweep" /\ ~ HasSet(last'.ops)) => sim'.cells = sim.cells]_vars

\* a callback has just queued an update of an in-bounds cell, which the
\* update will change
C2_Witness ==
    /\ pc = "sweep"
    /\ last.who = "onTick"
    /\ ~ HasSet(last.ops)
    /\ \E i \in DOMAIN last.ops :
         /\ last.ops[i].op = "update"
         /\ GridIn(sim.cells, last.ops[i].x, last.ops[i].y)
         /\ ApplyTransform(last.ops[i].arg, get(sim, last.ops[i].x, last.ops[i].y))
              # get(sim, last.ops[i].x, last.ops[i].y)

\* C3: after the update application every cell holds the composition, in
\* enqueue order, of the transforms queued for it, applied to the state it
\* had before the application.
C3_AppliedInOrder ==
    last.who = "apply" =>
        \A i \in DOMAIN sim.cells.data :
            sim.cells.data[i] =
                Compose(preApply.actions, GridCoordX(sim.cells, i), GridCoordY(sim.cells, i),
                        preApply.cells.data[i])

\* two transforms that do not commute were queued for the same in-bounds cell
C3_Witness ==
    /\ last.who = "apply"
    /\ \E i, j \in DOMAIN preApply.actions :
         LET a == preApply.actions[i]
             b == preApply.actions[j]
         IN /\ i < j
            /\ a[1] = b[1]
            /\ a[2] = b[2]
            /\ GridIn(preApply.cells, a[1], a[2])
            /\ ApplyTransform(b[3], ApplyTransform(a[3], GridAt(preApply.cells, a[1], a[2])))
                 # ApplyTransform(a[3], ApplyTransform(b[3], GridAt(preApply.cells, a[1], a[2])))

\* C4: right after set() on an in-bounds cell, and right after the update
\* application for every cell an update was applied to, the cell's dirty
\* flag is set and its block is not marked asleep.
C4_WriteMarksDirtyAwake ==
    /\ last.who \in {"host", "onTick"} =>
         \A i \in DOMAIN last.ops :
            (last.ops[i].op = "set" /\ GridIn(sim.cells, last.ops[i].x, last.ops[i].y)) =>
                /\ GridAt(sim.dirty, last.ops[i].x, last.ops[i].y)
                /\ ~ IsAsleep(sim, BlockOf(last.ops[i].x, last.ops[i].y))
    /\ last.who = "apply" =>
         \A a \in SeqRange(preApply.actions) :
            GridIn(preApply.cells, a[1], a[2]) =>
                /\ GridAt(sim.dirty, a[1], a[2])
                /\ ~ IsAsleep(sim, BlockOf(a[1], a[2]))

\* an update was applied to a cell of a block the sweep had left asleep
C4_Witness ==
    /\ last.who = "apply"
    /\ it.awake = {}
    /\ touched = Applies(preApply)
    /\ \E a \in SeqRange(preApply.actions) :
         /\ GridIn(preApply.cells, a[1], a[2])
         /\ BlockOf(a[1], a[2]) \in VisitedBlocks
         /\ IsAsleep(preApply, BlockOf(a[1], a[2]))
         /\ ~ IsAsleep(sim, BlockOf(a[1], a[2]))

(***************************************************************************)
(* Properties of the sleep blocks                                          *)
(***************************************************************************)
Targets(ts) == { t.block : t \in ts }

Writes(ts) == Targets({ t \in ts : t.op \in {"set", "update"} })

\* the blocks holding a cell that stayed awake in this tick
Stayed == { BlockOf(v.x, v.y) : v \in { w \in SeqRange(visits) : ~ w.sleep \/ w.pending } }

Visited(c) == \E k \in DOMAIN visits : visits[k].x = c[1] /\ visits[k].y = c[2]

C5_Sleeps ==
    pc = "resize" =>
        \A b \in VisitedBlocks :
            ((~ \E a \in Stayed : Near(a, b)) /\ b \notin Targets(touched)) => IsAsleep(sim, b)

\* C5 (amended), second part: every in-bounds cell of a block that is not
\* asleep when tick() is called receives onTick in that tick.
C5_Processed ==
    pc = "resize" =>
        \A b \in Blocks(tickStart.asleep) :
            ~ IsAsleep(tickStart, b) => \A c \in CellsOf(tickStart, b) : Visited(c)

\* C5 (amended), third part: the sweep enters no block that is asleep.
C5_Skips ==
    [][(pc = "sweep" /\ pc' = "sweep" /\ it'.blk # it.blk) =>
          ~ IsAsleep(sim, BlockOf(visits'[Len(visits')].x, visits'[Len(visits')].y))]_vars

\* C5 (amended), fourth part: a block leaves the asleep state only when a
\* set() or an addEffect() targets it, an update is applied to one of its
\* cells, or a block within the wake radius stayed awake during the sweep.
C5_WakeCauses ==
    [][\A b \in Blocks(sim.asleep) :
          (IsAsleep(sim, b) /\ GridIn(sim'.asleep, b[1], b[2]) /\ ~ IsAsleep(sim', b)) =>
              \/ last'.who \in {"host", "onTick"} /\ b \in Targets(Touches(last'.ops))
              \/ last'.who = "apply" /\ b \in Targets(Applies(sim))
              \/ last'.who = "wake" /\ \E a \in Stayed : Near(a, b)]_vars

C6_VisitedAreAwakeAtStart ==
    /\ (pc \in {"sweep", "resize"} /\ ~ cbSet) =>
          \A b \in VisitedBlocks : ~ IsAsleep(tickStart, b)
    /\ pc = "resize" =>
          \A b \in Blocks(tickStart.asleep) :
             (~ IsAsleep(tickStart, b) /\ CellsOf(tickStart, b) # {}) => b \in VisitedBlocks

\* C7 (as stated): in a tick at whose start no block is asleep, every cell
\* inside the bounds receives onTick exactly once and no coordinate outside
\* the bounds receives it.
C7_EveryCellOnce ==
    (pc = "resize" /\ \A b \in Blocks(tickStart.asleep) : ~ IsAsleep(tickStart, b)) =>
        /\ \A i \in DOMAIN tickStart.cells.data :
              Cardinality({ k \in DOMAIN visits :
                              /\ visits[k].x = GridCoordX(tickStart.cells, i)
                              /\ visits[k].y = GridCoordY(tickStart.cells, i) }) = 1
        /\ \A v \in SeqRange(visits) : GridIn(tickStart.cells, v.x, v.y)

\* C9 (as stated), first part: a block awake when tick() was called is
\* asleep when it returns only if every cell visited in it returned SLEEP
\* and had an empty effect list.
C9_SleepsOnlyIfInactive ==
    last.who = "apply" =>
        \A b \in Blocks(tickStart.asleep) :
            (~ IsAsleep(tickStart, b) /\ IsAsleep(sim, b)) =>
                \A v \in SeqRange(visits) :
                    BlockOf(v.x, v.y) = b => (v.sleep /\ ~ v.effects)

\* C9 (as stated), second part: outside tick() no block goes from awake to
\* asleep.
C9_OnlyTickSleeps ==
    [][(pc = "idle" /\ pc' = "idle") =>
          \A b \in Blocks(sim.asleep) : ~ IsAsleep(sim, b) => ~ IsAsleep(sim', b)]_vars

\* C9 (as stated): both parts.
C9_SleepOnlyAfterInactivity == []C9_SleepsOnlyIfInactive /\ C9_OnlyTickSleeps

(***************************************************************************)
(* The Game-of-Life example on two blocks: a blinker placed with set()     *)
(***************************************************************************)
\* the options of a Game-of-Life simulation, with the scenario the host
\* plays: the centre of the blinker and the tick before which it is placed
GOLOptions(wakeRadius, initialSleepy, bounds, blinker, placeAt) ==
    [wakeRadius |-> wakeRadius, initialDirty |-> TRUE, initialSleepy |-> initialSleepy,
     alwaysRender |-> FALSE, bounds |-> {bounds}, blinker |-> blinker, placeAt |-> placeAt]

\* blinkers whose 3x3 neighbourhood lies inside the bounds: inside a block,
\* and against the edge between the two blocks
GOLConfigs ==
    { GOLOptions(r, sl, Rect(0, 0, 16, 8), b, t) :
        r \in {0, 1}, sl \in BOOLEAN, b \in { <<3, 3>>, <<7, 3>> }, t \in 0..(MaxTick - 1) }

Vertical(c) == { <<c[1], c[2] - 1>>, <<c[1], c[2]>>, <<c[1], c[2] + 1>> }

Horizontal(c) == { <<c[1] - 1, c[2]>>, <<c[1], c[2]>>, <<c[1] + 1, c[2]>> }

AliveCells(s) ==
    { c \in { <<GridCoordX(s.cells, i), GridCoordY(s.cells, i)>> : i \in DOMAIN s.cells.data } :
        GridAt(s.cells, c[1], c[2]).alive }

InitGOL == \E o \in GOLConfigs : \E bounds \in o.bounds : InitWith(bounds, o)

\* the host places the vertical blinker: three calls of set()
GOLPlace ==
    /\ pc = "idle"
    /\ nOps = 0
    /\ sim.currentTick = opt.placeAt
    /\ LET c == opt.blinker
           ops == << Op("set", c[1], c[2] - 1, Alive), Op("set", c[1], c[2], Alive),
                     Op("set", c[1], c[2] + 1, Alive) >>
           after == RunOps([sim |-> sim, fx |-> fx], ops)
       IN /\ sim' = after.sim
          /\ fx' = after.fx
          /\ last' = Last("host", ops)
          /\ touched' = touched \cup Touches(ops)
    /\ nOps' = 1
    /\ UNCHANGED <<opt, pc, it, tickStart, preApply, visits, prev, cbSet, dropped>>

\* the host calls tick(): before the placement on the empty grid, and twice
\* after it
GOLTickStart ==
    /\ pc = "idle"
    /\ TickBegin(IF nOps = 0 THEN opt.placeAt ELSE opt.placeAt + 2)

\* onTick of the example runs on the next cell of the sweep
GOLCell ==
    /\ pc = "sweep"
    /\ LET n == NextCell
       IN /\ n.found
          /\ SweepCell(n, GOLOnTick(sim, get(sim, CellX(sim.asleep, n.blk, n.k),
                                             CellY(sim.asleep, n.blk, n.k)),
                                    CellX(sim.asleep, n.blk, n.k),
                                    CellY(sim.asleep, n.blk, n.k)), 0)

NextGOL ==
    \/ GOLPlace
    \/ GOLTickStart
    \/ GOLCell
    \/ SweepEnd
    \/ TickResize
    \/ TickApply

SpecGOL == InitGOL /\ [][NextGOL]_vars

\* C8 (as stated): one tick() after a vertical blinker was placed with
\* set() the live cells are those of the horizontal blinker, after a second
\* tick() they are those of the vertical blinker again.
C8_BlinkerOscillates ==
    (pc = "idle" /\ nOps = 1) =>
        /\ sim.currentTick = opt.placeAt + 1 => AliveCells(sim) = Horizontal(opt.blinker)
        /\ sim.currentTick = opt.placeAt + 2 => AliveCells(sim) = Vertical(opt.blinker)

(***************************************************************************)
(* The wake radius on bounds aligned to the blocks                         *)
(***************************************************************************)
WakeConfigs ==
    { Options(r, TRUE, FALSE, FALSE, { Rect(0, 0, 24, 8) }) : r \in {0, 1, 8, 9} }
    \cup { Options(1, TRUE, TRUE, FALSE, { Rect(0, 0, 8, 8), Rect(0, 0, 16, 8) }) }

InitWake == \E o \in WakeConfigs : \E bounds \in o.bounds : InitWith(bounds, o)

\* the host registers an effect
HostEffect ==
    /\ pc = "idle"
    /\ \E e \in EffectShapes : HostOp(Op("addEffect", 0, 0, e))

NextWake ==
    \/ HostEffect
    \/ TickStart
    \/ OnTickQuiet
    \/ SweepEnd
    \/ TickResize
    \/ TickApply

SpecWake == InitWake /\ [][NextWake]_vars

\* C10 (as stated): when tick() returns, every in-bounds cell within
\* Chebyshev distance wakeRadius of a cell that did not return SLEEP, or
\* whose effect list was not empty, lies in a block that is not asleep.
C10_WakeRadiusCovers ==
    last.who = "apply" =>
        \A v \in SeqRange(visits) :
            (~ v.sleep \/ v.effects) =>
                \A i \in DOMAIN sim.cells.data :
                    LET x == GridCoordX(sim.cells, i)
                        y == GridCoordY(sim.cells, i)
                    IN (/\ x >= v.x - opt.wakeRadius /\ x <= v.x + opt.wakeRadius
                        /\ y >= v.y - opt.wakeRadius /\ y <= v.y + opt.wakeRadius)
                           => ~ IsAsleep(sim, BlockOf(x, y))

(***************************************************************************)
(* The operations of the Simulation called by the host between ticks, with *)
(* effects that finish, effects done when registered, and bounds that      *)
(* shrink and grow                                                         *)
(***************************************************************************)
\* the number of calls the host and the callbacks make in this exploration
MaxApiOps == 2

\* the effects registered: those of EffectShapes and one whose done() holds
\* when it is handed to addEffect
ApiEffectShapes == EffectShapes \cup { [length |-> 0, cells |-> << <<8, 0>> >>] }

\* set() on a cell of the second block (outside the narrow bounds) and on a
\* cell below the grid
ApiSetOps == { Op("set", p[1], p[2], Alive) : p \in { <<13, 0>>, <<4, 1>> } }

ApiClearOps == { Op("clearEffects", p[1], p[2], "none") : p \in { <<7, 0>>, <<13, 0>> } }

\* the rect argument of render(): omitted, or two cells around the block edge
ApiRenderRects == { <<>>, << Rect(7, 0, 2, 1) >> }

ApiConfigs ==
    { Options(0, TRUE, FALSE, FALSE, { Rect(0, 0, 16, 1), Rect(0, 0, 12, 1) }),
      Options(0, FALSE, TRUE, FALSE, { Rect(0, 0, 12, 1) }) }

InitApi == \E o \in ApiConfigs : \E bounds \in o.bounds : InitWith(bounds, o)

\* renderSingle calling tweakCell of every effect of the cell's list, done
\* or not
Tweaks_noPrune(s, f, rect, all) ==
    UNION { { <<e, c[1], c[2]>> : e \in SeqRange(GridAt(s.effectGrid, c[1], c[2])) } :
              c \in RenderedCells(s, rect, all) }

\* the tweakCell calls of renderSingle on the cells renderDirty (or
\* renderAll) passes to it, as <<effect, x, y>>
Tweaks(s, f, rect, all) ==
    UNION { { <<e, c[1], c[2]>> : e \in SeqRange(PruneDone(f, GridAt(s.effectGrid, c[1], c[2]))) } :
              c \in RenderedCells(s, rect, all) }

\* the tweakCell calls of one call of render()
renderTweaks(s, f, o, canvas, rectOpt, rerenderArg) ==
    LET rect == IF rectOpt = <<>> THEN getRect(s.cells) ELSE rectOpt[1]
    IN IF s.previousCanvas = "null" THEN Tweaks(s, f, rect, FALSE)
       ELSE IF \/ rerenderArg
               \/ s.previousRect = <<>>
               \/ ~ rectsEqual(s.previousRect[1], rect)
               \/ canvas # s.previousCanvas
               \/ o.alwaysRender
       THEN Tweaks(s, f, rect, TRUE)
       ELSE IF s.globalDirty THEN Tweaks(s, f, rect, FALSE)
       ELSE {}

\* one call by the host
ApiOp(o) ==
    /\ nOps < MaxApiOps
    /\ CallsAllowed(sim, fx, <<o>>)
    /\ LET after == RunOp([sim |-> sim, fx |-> fx], o)
       IN /\ sim' = after.sim
          /\ fx' = after.fx
    /\ last' = Last("host", <<o>>)
    /\ touched' = touched \cup Touches(<<o>>)
    /\ nOps' = nOps + 1
    /\ UNCHANGED <<opt, pc, it, tickStart, preApply, visits, prev, cbSet, dropped>>

ApiSet ==
    /\ pc = "idle"
    /\ \E o \in ApiSetOps : ApiOp(o)

ApiAddEffect ==
    /\ pc = "idle"
    /\ \E e \in ApiEffectShapes : ApiOp(Op("addEffect", 0, 0, e))

ApiClearEffects ==
    /\ pc = "idle"
    /\ \E o \in ApiClearOps : ApiOp(o)

\* render(canvas, font, rect, rerender) by the host; the step records the
\* rect rendered and the tweakCell calls made
ApiRender ==
    /\ pc = "idle"
    /\ nOps < MaxApiOps
    /\ \E rerender \in BOOLEAN, rectOpt \in ApiRenderRects :
         /\ sim' = render(sim, fx, opt, "canvas", rectOpt, rerender)
         /\ last' = Last("host",
                << Op("render", 0, 0,
                      [rect |-> IF rectOpt = <<>> THEN getRect(sim.cells) ELSE rectOpt[1],
                       tweaks |-> renderTweaks(sim, fx, opt, "canvas", rectOpt, rerender)]) >>)
    /\ nOps' = nOps + 1
    /\ UNCHANGED <<fx, opt, pc, it, tickStart, preApply, visits, touched, prev, cbSet, dropped>>

\* onTick returns SLEEP
ApiTickCell ==
    /\ pc = "sweep"
    /\ LET n == NextCell
       IN /\ n.found
          /\ SweepCell(n, [ops |-> <<>>, sleep |-> TRUE], 0)

\* onTick at a probe cell registers an effect and returns SLEEP
ApiTickEffect ==
    /\ pc = "sweep"
    /\ nOps < MaxApiOps
    /\ LET n == NextCell
       IN /\ n.found
          /\ AtProbe(n)
          /\ \E e \in ApiEffectShapes :
               /\ CallsAllowed(sim, fx, << Op("addEffect", 0, 0, e) >>)
               /\ SweepCell(n, [ops |-> << Op("addEffect", 0, 0, e) >>, sleep |-> TRUE], 1)

NextApi ==
    \/ ApiSet
    \/ ApiAddEffect
    \/ ApiClearEffects
    \/ ApiRender
    \/ TickStart
    \/ ApiTickCell
    \/ ApiTickEffect
    \/ SweepEnd
    \/ TickResize
    \/ TickApply

SpecApi == InitApi /\ [][NextApi]_vars

(***************************************************************************)
(* Properties of set() and get() outside the bounds                        *)
(***************************************************************************)
\* the step is a call by the host of the operation `name`
HostCalls(name) == last'.who = "host" /\ last'.ops[1].op = name

\* C11 (as stated): set(x, y, state) by the host with (x, y) outside the
\* current bounds leaves every cell state, every dirty flag, every sleep
\* block flag and the queue of pending updates as they were.
C11_SetOutsideIgnored ==
    [][(HostCalls("set") /\ ~ GridIn(sim.cells, last'.ops[1].x, last'.ops[1].y)) =>
          /\ sim'.cells = sim.cells
          /\ sim'.dirty = sim.dirty
          /\ sim'.asleep = sim.asleep
          /\ sim'.actions = sim.actions]_vars

\* C12: whatever operations and resizes came before, get(x, y) returns the
\* state stored for (x, y) when (x, y) lies inside the current bounds and the
\* default state otherwise; being a read of the cell grid it changes nothing.
C12_GetTotal ==
    \A c \in Coords :
        get(sim, c[1], c[2]) =
            IF InRect(getRect(sim.cells), c[1], c[2])
            THEN sim.cells.data[(c[2] - sim.cells.top) * sim.cells.width + (c[1] - sim.cells.left) + 1]
            ELSE defaultState

\* a tick has returned after a resize discarded a cell holding another state
\* than the default: get() of its coordinate now returns the default
C12_Witness ==
    /\ pc = "idle"
    /\ \E c \in dropped :
         /\ ~ InRect(getRect(sim.cells), c[1], c[2])
         /\ GridAt(tickStart.cells, c[1], c[2]) # defaultState
         /\ get(sim, c[1], c[2]) = defaultState

(***************************************************************************)
(* Properties of the effects                                               *)
(***************************************************************************)
\* the per-cell effect lists that hold the effect e
ListsWith(s, e) == { i \in DOMAIN s.effectGrid.data : e \in SeqRange(s.effectGrid.data[i]) }

\* C13, first part: an effect whose done() held when it was handed to
\* addEffect is in no list of the simulation and is never advanced.
C13_DoneNotRegistered ==
    \A e \in DOMAIN fx :
        fx[e].length = 0 =>
            /\ fx[e].tick = 0
            /\ e \notin SeqRange(sim.effects)
            /\ ListsWith(sim, e) = {}

\* C13, second part: addEffect(e) with e.done() true changes nothing of the
\* simulation when the host calls it, and nothing beyond what the sweep
\* callback does itself when onTick calls it.
C13_DoneIsNoOp ==
    [][/\ (HostCalls("addEffect") /\ done(fx'[Len(fx')])) => sim' = sim
       /\ (/\ last'.who = "onTick"
           /\ Len(last'.ops) = 1
           /\ last'.ops[1].op = "addEffect"
           /\ done(fx'[Len(fx')])) =>
              sim' = TickCallback([sim |-> [sim EXCEPT !.asleep = NextCell.asleep], fx |-> fx],
                                  visits'[Len(visits')].x, visits'[Len(visits')].y,
                                  [ops |-> <<>>, sleep |-> TRUE]).sim]_vars

\* C13: addEffect of an effect that is already done is a no-op.
C13_DoneEffectIgnored == []C13_DoneNotRegistered /\ C13_DoneIsNoOp

\* a tick has returned after addEffect was handed an effect already done,
\* while another effect is registered
C13_Witness ==
    /\ last.who = "apply"
    /\ \E e \in DOMAIN fx : fx[e].length = 0
    /\ \E e \in DOMAIN fx : ListsWith(sim, e) # {}

\* the last step was one call of addEffect, by the host or by onTick, with
\* an effect that was not done
JustAdded ==
    /\ last.who \in {"host", "onTick"}
    /\ Len(last.ops) = 1
    /\ last.ops[1].op = "addEffect"
    /\ ~ done(fx[Len(fx)])

\* C14: right after addEffect(e) with e not done, e is in the effect list of
\* every in-bounds coordinate of e.affectedCells() and of no other cell, and
\* the block of each of these coordinates is not asleep.
C14_EffectIndexed ==
    JustAdded =>
        LET e == Len(fx)
        IN /\ \A c \in SeqRange(fx[e].cells) :
                GridIn(sim.cells, c[1], c[2]) =>
                    /\ e \in SeqRange(getEffects(sim, c[1], c[2]))
                    /\ ~ IsAsleep(sim, BlockOf(c[1], c[2]))
           /\ \A i \in ListsWith(sim, e) :
                <<GridCoordX(sim.effectGrid, i), GridCoordY(sim.effectGrid, i)>>
                    \in SeqRange(fx[e].cells)

\* the host registers, on a simulation all of whose blocks were asleep, an
\* effect that affects a cell inside the bounds and one outside them
C14_Witness ==
    /\ JustAdded
    /\ last.who = "host"
    /\ nOps = 1
    /\ sim.currentTick = 0
    /\ opt.initialSleepy
    /\ \E c \in SeqRange(fx[Len(fx)].cells) : GridIn(sim.cells, c[1], c[2])
    /\ \E c \in SeqRange(fx[Len(fx)].cells) : ~ GridIn(sim.cells, c[1], c[2])

JustRendered == last.who = "host" /\ last.ops[1].op = "render"

\* C16 (as stated): a call of render() invokes tweakCell of every effect
\* that is registered and not done, for each of its affected in-bounds cells
\* that the rendered rect covers, and invokes tweakCell of no effect that is
\* done.
C16_ActiveEffectTweaked ==
    JustRendered =>
        /\ \A e \in SeqRange(sim.effects) :
              ~ done(fx[e]) =>
                  \A c \in SeqRange(fx[e].cells) :
                      (GridIn(sim.cells, c[1], c[2]) /\ InRect(last.ops[1].arg.rect, c[1], c[2])) =>
                          <<e, c[1], c[2]>> \in last.ops[1].arg.tweaks
        /\ \A t \in last.ops[1].arg.tweaks : ~ done(fx[t[1]])

\* the effects registered since the running (or last) tick() was called
NewEffects == SeqRange(sim.effects) \ SeqRange(tickStart.effects)

\* C17, first part: the step that begins tick() advances by one the progress
\* of every effect of the global list and of no other, and leaves in the
\* list those that are then not done, in their order; no other step advances
\* an effect.
C17_AdvanceOnce ==
    [][\A e \in DOMAIN fx :
          IF last'.who = "start"
          THEN /\ fx'[e].tick = fx[e].tick + (IF e \in SeqRange(sim.effects) THEN 1 ELSE 0)
               /\ sim'.effects = SelectSeq(sim.effects, LAMBDA d : ~ done(fx'[d]))
          ELSE fx'[e] = fx[e]]_vars

\* C17, second part: an effect registered by a callback during a tick has
\* not been advanced when that tick returns.
C17_NewNotAdvanced ==
    (pc # "idle" \/ last.who = "apply") => \A e \in NewEffects : fx[e].tick = 0

C18_DoneEffectPruned ==
    last.who = "apply" =>
        \A e \in DOMAIN fx :
            (done(fx[e]) /\ e \notin SeqRange(tickStart.effects)) => ListsWith(sim, e) = {}

(***************************************************************************)
(* Properties of the tick counter and of the resize                        *)
(***************************************************************************)
\* C19: getTick() is 0 after construction; the step that completes a tick()
\* raises it by exactly one; no other step (set, addEffect, clearEffects,
\* render, the sweep and its callbacks, the resize) changes it.
C19_TickCounter ==
    /\ getTick(sim) = 0
    /\ [][getTick(sim') = getTick(sim) + (IF last'.who = "apply" THEN 1 ELSE 0)]_vars

\* two ticks have completed and the host has called an operation
C19_Witness ==
    /\ last.who = "apply"
    /\ getTick(sim) = 2
    /\ nOps >= 1

\* C20: the step of tick() that evaluates the bounds again, before the
\* queued updates are applied, keeps the state and the effect list of every
\* coordinate inside both the old and the new bounds, and gives the default
\* state and an empty effect list to every coordinate inside the new bounds
\* only, those whose state an earlier shrink discarded included.
C20_ResizeKeepsOverlap ==
    [][last'.who = "resize" =>
          \A c \in Coords :
              /\ (GridIn(sim.cells, c[1], c[2]) /\ GridIn(sim'.cells, c[1], c[2])) =>
                    /\ get(sim', c[1], c[2]) = get(sim, c[1], c[2])
                    /\ getEffects(sim', c[1], c[2]) = getEffects(sim, c[1], c[2])
              /\ (~ GridIn(sim.cells, c[1], c[2]) /\ GridIn(sim'.cells, c[1], c[2])) =>
                    /\ get(sim', c[1], c[2]) = defaultState
                    /\ getEffects(sim', c[1], c[2]) = <<>>
                    /\ GridIn(sim'.effectGrid, c[1], c[2])]_vars

\* the bounds have grown back over a coordinate whose state, not the
\* default, a shrink had discarded
C20_Witness ==
    /\ last.who = "resize"
    /\ \E c \in dropped :
         /\ ~ GridIn(tickStart.cells, c[1], c[2])
         /\ GridIn(sim.cells, c[1], c[2])
         /\ get(sim, c[1], c[2]) = defaultState

(***************************************************************************)
(* render() on a small grid: changing targets, rects, forced repaints,     *)
(* clean initial states and resizes                                        *)
(***************************************************************************)
\* the number of calls the host makes in this exploration
MaxRenderOps == 3

RenderBounds == { Rect(0, 0, 3, 1), Rect(0, 0, 2, 1) }

\* initialStateIsClean false or true, and debug.alwaysRender
RenderConfigs ==
    { Options(0, TRUE, FALSE, FALSE, RenderBounds),
      Options(0, FALSE, FALSE, FALSE, RenderBounds),
      Options(0, FALSE, FALSE, TRUE, RenderBounds) }

InitRender == \E o \in RenderConfigs : \E bounds \in o.bounds : InitWith(bounds, o)

RenderEffectShapes ==
    { [length |-> 2, cells |-> << <<1, 0>> >>] }

\* the canvases render() is handed
Canvases == { "canvas", "other" }

\* the fonts render() is handed, as the set of glyphs they define: one with
\* the glyphs of both states, one without the glyph of live cells
Fonts == { {" ", "g"}, {" "} }

\* the rect argument of render(): omitted, or the last two columns
RenderRects == { <<>>, << Rect(1, 0, 2, 1) >> }

\* the calls of render() tried: the plain call, and the calls that differ from
\* it in the canvas, in the rect or in the rerender argument
RenderArgs ==
    { a \in [canvas : Canvases, rect : RenderRects, rerender : BOOLEAN, font : Fonts] :
        Cardinality({ k \in {1, 2, 3, 4} :
            \/ k = 1 /\ a.canvas # "canvas"
            \/ k = 2 /\ a.rect # <<>>
            \/ k = 3 /\ a.rerender
            \/ k = 4 /\ a.font # {" ", "g"} }) <= 1 }

\* options.getChar of the example: the character of the state
getChar(state) == state.char

\* drawChar throwing on a glyph the font does not define
drawChar_throws(font, glyph) == [threw |-> glyph \notin font, defined |-> glyph \in font]

\* font.drawChar(ctx, glyph, ...): whether it throws, and whether it gets past
\* the lookup of the glyph to the drawing on the target
drawChar(font, glyph) == [threw |-> FALSE, defined |-> glyph \in font]

\* the cells of a rendering loop over `cs` (row by row, left to right) that
\* are reached: those with no earlier cell on which drawChar throws
Reached(s, cs, font) ==
    { c \in cs :
        ~ \E d \in cs :
            /\ drawChar(font, getChar(GridAt(s.cells, d[1], d[2]))).threw
            /\ d[2] < c[2] \/ (d[2] = c[2] /\ d[1] < c[1]) }

\* a loop that is left by an exception leaves the cells it did not reach, and
\* _globalDirty, as they were
renderFont(s, after, cs, font) ==
    IF Reached(s, cs, font) = cs THEN after
    ELSE [after EXCEPT
            !.dirty.data = [i \in DOMAIN @ |->
                IF <<GridCoordX(s.dirty, i), GridCoordY(s.dirty, i)>> \in Reached(s, cs, font)
                THEN @[i] ELSE s.dirty.data[i]],
            !.effectGrid.data = [i \in DOMAIN @ |->
                IF <<GridCoordX(s.dirty, i), GridCoordY(s.dirty, i)>> \in Reached(s, cs, font)
                THEN @[i] ELSE s.effectGrid.data[i]],
            !.globalDirty = s.globalDirty]

\* render() always taking the renderDirty path
renderDrawn_dirtyOnly(s, o, canvas, rectOpt, rerenderArg) ==
    RenderedCells(s, IF rectOpt = <<>> THEN getRect(s.cells) ELSE rectOpt[1], FALSE)

\* the cells render() passes to renderSingle, as <<x, y>>
renderDrawn(s, o, canvas, rectOpt, rerenderArg) ==
    LET rect == IF rectOpt = <<>> THEN getRect(s.cells) ELSE rectOpt[1]
    IN IF s.previousCanvas = "null" THEN RenderedCells(s, rect, FALSE)
       ELSE IF \/ rerenderArg
               \/ s.previousRect = <<>>
               \/ ~ rectsEqual(s.previousRect[1], rect)
               \/ canvas # s.previousCanvas
               \/ o.alwaysRender
       THEN RenderedCells(s, rect, TRUE)
       ELSE IF s.globalDirty THEN RenderedCells(s, rect, FALSE)
       ELSE {}

\* one call of set, update or addEffect by the host
RenderHostOp(o) ==
    /\ nOps < MaxRenderOps
    /\ CallsAllowed(sim, fx, <<o>>)
    /\ LET after == RunOp([sim |-> sim, fx |-> fx], o)
       IN /\ sim' = after.sim
          /\ fx' = after.fx
    /\ last' = Last("host", <<o>>)
    /\ touched' = touched \cup Touches(<<o>>)
    /\ nOps' = nOps + 1
    /\ UNCHANGED <<opt, pc, it, tickStart, preApply, visits, prev, cbSet, dropped>>

RenderSet ==
    /\ pc = "idle"
    /\ RenderHostOp(Op("set", 1, 0, Alive))

RenderUpdate ==
    /\ pc = "idle"
    /\ RenderHostOp(Op("update", 2, 0, "birth"))

RenderAddEffect ==
    /\ pc = "idle"
    /\ \E e \in RenderEffectShapes : RenderHostOp(Op("addEffect", 0, 0, e))

\* render(canvas, font, rect, rerender) by the host; the step records the
\* arguments, whether a render came before, and the cells drawn
RenderCall ==
    /\ pc = "idle"
    /\ nOps < MaxRenderOps
    /\ \E a \in RenderArgs :
       LET canvas == a.canvas
           rectOpt == a.rect
           rerender == a.rerender
       IN
         /\ sim' = renderFont(sim, render(sim, fx, opt, canvas, rectOpt, rerender),
                               renderDrawn(sim, opt, canvas, rectOpt, rerender), a.font)
         /\ last' = Last("host",
                << Op("render", 0, 0,
                      [rect |-> IF rectOpt = <<>> THEN getRect(sim.cells) ELSE rectOpt[1],
                       canvas |-> canvas,
                       font |-> a.font,
                       reached |-> Reached(sim, renderDrawn(sim, opt, canvas, rectOpt, rerender),
                                           a.font),
                       defined |-> { c \in Reached(sim,
                                            renderDrawn(sim, opt, canvas, rectOpt, rerender), a.font) :
                                       drawChar(a.font,
                                                getChar(GridAt(sim.cells, c[1], c[2]))).defined },
                       rerender |-> rerender,
                       first |-> sim.previousCanvas = "null",
                       dirtyBefore |-> RenderedCells(sim,
                            IF rectOpt = <<>> THEN getRect(sim.cells) ELSE rectOpt[1], FALSE),
                       drawn |-> renderDrawn(sim, opt, canvas, rectOpt, rerender),
                       tweaks |-> renderTweaks(sim, fx, opt, canvas, rectOpt, rerender)]) >>)
    /\ nOps' = nOps + 1
    /\ UNCHANGED <<fx, opt, pc, it, tickStart, preApply, visits, touched, prev, cbSet, dropped>>

NextRender ==
    \/ RenderSet
    \/ RenderUpdate
    \/ RenderAddEffect
    \/ RenderCall
    \/ TickStart
    \/ ApiTickCell
    \/ SweepEnd
    \/ TickResize
    \/ TickApply

SpecRender == InitRender /\ [][NextRender]_vars

(***************************************************************************)
(* Properties of the dirty flags and of render()                           *)
(***************************************************************************)
\* the bounds changed during the tick that has just returned
BoundsChanged == last.who = "apply" /\ ~ rectsEqual(getRect(tickStart.cells), getRect(sim.cells))

\* C21 (as stated): when a tick() during which the bounds changed returns,
\* every cell of the new bounds is dirty.
C21_ResizeMarksAllDirty ==
    BoundsChanged => \A i \in DOMAIN sim.dirty.data : sim.dirty.data[i]

\* the in-bounds cells of a rect
CellsIn(s, rect) ==
    { c \in { <<GridCoordX(s.cells, i), GridCoordY(s.cells, i)>> : i \in DOMAIN s.cells.data } :
        InRect(rect, c[1], c[2]) }

\* the step is a call of render() that differs from the call before in its
\* canvas or its rect, or is asked to repaint (argument or debug flag)
RepaintAsked ==
    /\ HostCalls("render")
    /\ \/ last'.ops[1].arg.canvas # sim.previousCanvas
       \/ sim.previousRect = <<>>
       \/ ~ rectsEqual(sim.previousRect[1], last'.ops[1].arg.rect)
       \/ last'.ops[1].arg.rerender
       \/ opt.alwaysRender

\* the call of render() redraws every in-bounds cell of its rect and leaves
\* them clean
FullRepaint ==
    /\ last'.ops[1].arg.drawn = CellsIn(sim, last'.ops[1].arg.rect)
    /\ \A c \in CellsIn(sim, last'.ops[1].arg.rect) : ~ GridAt(sim'.dirty, c[1], c[2])

C23_DirtyOrEffectRedrawn ==
    [][(HostCalls("render") /\ ~ RepaintAsked) =>
          /\ last'.ops[1].arg.drawn =
                { c \in CellsIn(sim, last'.ops[1].arg.rect) :
                    GridAt(sim.dirty, c[1], c[2]) \/ GridAt(sim.effectGrid, c[1], c[2]) # <<>> }
          /\ \A c \in CellsIn(sim, last'.ops[1].arg.rect) : ~ GridAt(sim'.dirty, c[1], c[2])]_vars

\* C24 (as stated): renders are minimal: a render() that is not a full
\* repaint redraws only cells whose dirty flag is set, and a step sets the
\* dirty flag of a cell that stays in bounds only if it is a set() on that
\* cell, the application of an update queued for that cell, or the cell has
\* a non-empty effect list of its own (a cell newly exposed by a resize was
\* not in bounds before); in particular a tick never marks dirty a cell that
\* has no effect and was not written.
C24_MinimalRenders ==
    [][/\ (HostCalls("render") /\ ~ RepaintAsked) =>
            last'.ops[1].arg.drawn \subseteq last'.ops[1].arg.dirtyBefore
       /\ \A c \in CellsIn(sim', getRect(sim'.cells)) :
            (/\ GridIn(sim.dirty, c[1], c[2])
             /\ ~ GridAt(sim.dirty, c[1], c[2])
             /\ GridAt(sim'.dirty, c[1], c[2])) =>
                \/ /\ HostCalls("set")
                   /\ last'.ops[1].x = c[1]
                   /\ last'.ops[1].y = c[2]
                \/ /\ last'.who = "apply"
                   /\ \E i \in DOMAIN sim.actions :
                        sim.actions[i][1] = c[1] /\ sim.actions[i][2] = c[2]
                \/ GridAt(sim.effectGrid, c[1], c[2]) # <<>>]_vars

\* C25: a call of render() leaves the cell states, the queue of pending
\* updates, the sleep grid, the tick counter, the global effect list and the
\* progress of every effect as they were; a per-cell effect list changes only
\* by losing its done effects.
C25_RenderReadOnly ==
    [][HostCalls("render") =>
          /\ sim'.cells = sim.cells
          /\ sim'.actions = sim.actions
          /\ sim'.asleep = sim.asleep
          /\ sim'.currentTick = sim.currentTick
          /\ sim'.effects = sim.effects
          /\ fx' = fx
          /\ getRect(sim'.effectGrid) = getRect(sim.effectGrid)
          /\ \A i \in DOMAIN sim.effectGrid.data :
                sim'.effectGrid.data[i] \in
                    { sim.effectGrid.data[i], PruneDone(fx, sim.effectGrid.data[i]) }]_vars

\* render() has drawn cells after a tick, while an update is queued and a
\* block is asleep
C25_Witness ==
    /\ JustRendered
    /\ last.ops[1].arg.drawn # {}
    /\ sim.currentTick > 0
    /\ sim.actions # <<>>
    /\ \E i \in DOMAIN sim.asleep.data : sim.asleep.data[i]

(***************************************************************************)
(* Grid<T> on its own: a grid of numbers that is written, read and rebuilt *)
(* over other rectangles.  `sim` is the grid, `preApply` the grid the last *)
(* constructor call copied from.                                           *)
(***************************************************************************)
MaxGridOps == 2

\* the rectangles grids are built over
GridRects == { Rect(0, 0, 2, 2), Rect(1, 0, 2, 2), Rect(-1, -1, 2, 2), Rect(0, 0, 3, 1) }

\* the values stored: 0 is the falsy one
GridValues == 0..1

\* the coordinates handed to get and set
GridXs == -2..3

GridYs == -2..2

\* the fill functions (x, y) => T handed to the constructor
Generators == { "sum", "column" }

Generate(gen, x, y) == IF gen = "sum" THEN (x + y) % 2 ELSE x % 2

\* Grid.get: the stored value, or null out of bounds (null is written as a
\* number that no grid holds)
Null == -1

GridGet(g, x, y) == IF GridIn(g, x, y) THEN GridAt(g, x, y) ELSE Null

\* what Grid.set returns
GridSetReturns(g, x, y) == GridIn(g, x, y)

\* new Grid(rect, fill) with a fill function
GridGenerate(rect, fill) ==
    [left |-> rect.x, top |-> rect.y, width |-> rect.width, height |-> rect.height,
     data |-> [i \in 1..(rect.width * rect.height) |->
                 Generate(fill, ((i - 1) % rect.width) + rect.x,
                                ((i - 1) \div rect.width) + rect.y)]]

\* new Grid(rect, blitFrom, fillDefault) with a fillDefault function
GridBlitGen(rect, fill, fillDefault) ==
    [left |-> rect.x, top |-> rect.y, width |-> rect.width, height |-> rect.height,
     data |-> [i \in 1..(rect.width * rect.height) |->
                 LET x == ((i - 1) % rect.width) + rect.x
                     y == ((i - 1) \div rect.width) + rect.y
                 IN IF GridGet(fill, x, y) # Null THEN GridGet(fill, x, y)
                    ELSE Generate(fillDefault, x, y)]]

InitGrid ==
    /\ \E rect \in GridRects :
         \/ \E v \in GridValues : sim = GridFill(rect, v)
         \/ \E gen \in Generators : sim = GridGenerate(rect, gen)
    /\ preApply = sim
    /\ last = Last("new", <<>>)
    /\ nOps = 0
    /\ opt = Options(0, FALSE, FALSE, FALSE, GridRects)
    /\ fx = <<>>
    /\ pc = "idle"
    /\ it = [blk |-> 0, k |-> 0, awake |-> {}]
    /\ tickStart = <<>>
    /\ visits = <<>>
    /\ touched = {}
    /\ prev = <<>>
    /\ cbSet = {}
    /\ dropped = {}

\* grid.set(x, y, v)
GridWrite ==
    /\ nOps < MaxGridOps
    /\ \E x \in GridXs, y \in GridYs, v \in GridValues :
         /\ sim' = GridSet(sim, x, y, v)
         /\ last' = Last("grid", << Op("set", x, y,
                                       [value |-> v, returned |-> GridSetReturns(sim, x, y)]) >>)
    /\ nOps' = nOps + 1
    /\ UNCHANGED <<fx, opt, pc, it, tickStart, preApply, visits, touched, prev, cbSet, dropped>>

\* grid = new Grid(rect, grid, v)
GridResize ==
    /\ nOps < MaxGridOps
    /\ \E rect \in GridRects, v \in GridValues :
         /\ sim' = GridBlit(rect, sim, v)
         /\ last' = Last("grid", << Op("blit", 0, 0, [rect |-> rect, value |-> v]) >>)
    /\ preApply' = sim
    /\ nOps' = nOps + 1
    /\ UNCHANGED <<fx, opt, pc, it, tickStart, visits, touched, prev, cbSet, dropped>>

\* grid = new Grid(rect, grid, (x, y) => ...)
GridResizeGen ==
    /\ nOps < MaxGridOps
    /\ \E rect \in GridRects, gen \in Generators :
         /\ sim' = GridBlitGen(rect, sim, gen)
         /\ last' = Last("grid", << Op("blitGen", 0, 0, [rect |-> rect, gen |-> gen]) >>)
    /\ preApply' = sim
    /\ nOps' = nOps + 1
    /\ UNCHANGED <<fx, opt, pc, it, tickStart, visits, touched, prev, cbSet, dropped>>

NextGrid ==
    \/ GridWrite
    \/ GridResize
    \/ GridResizeGen

SpecGrid == InitGrid /\ [][NextGrid]_vars

\* C26: set(x, y, v) at an in-bounds coordinate returns true, a following
\* get(x, y) returns v and get returns what it did before at every other
\* coordinate; at an out-of-bounds coordinate get returns null, set returns
\* false and the stored values stay as they were.
C26_GridSetGet ==
    [][(last'.who = "grid" /\ last'.ops[1].op = "set") =>
          LET x == last'.ops[1].x
              y == last'.ops[1].y
          IN IF /\ x >= sim.left /\ x < sim.left + sim.width
                /\ y >= sim.top /\ y < sim.top + sim.height
             THEN /\ last'.ops[1].arg.returned = TRUE
                  /\ GridGet(sim', x, y) = last'.ops[1].arg.value
                  /\ \A ox \in GridXs, oy \in GridYs :
                        <<ox, oy>> # <<x, y>> => GridGet(sim', ox, oy) = GridGet(sim, ox, oy)
             ELSE /\ last'.ops[1].arg.returned = FALSE
                  /\ GridGet(sim, x, y) = Null
                  /\ sim' = sim]_vars

\* set has replaced a stored value by a different one
C26_Witness ==
    /\ last.who = "grid"
    /\ last.ops[1].op = "set"
    /\ last.ops[1].arg.returned
    /\ GridGet(sim, last.ops[1].x, last.ops[1].y) = last.ops[1].arg.value
    /\ \E i \in DOMAIN sim.data : sim.data[i] # last.ops[1].arg.value

\* set was called out of bounds, next to a row of the grid
C26_WitnessOutside ==
    /\ last.who = "grid"
    /\ last.ops[1].op = "set"
    /\ ~ last.ops[1].arg.returned
    /\ last.ops[1].x = sim.left + sim.width
    /\ last.ops[1].y = sim.top

\* C27: a grid built over a rect from an old grid and a fallback holds, at
\* every coordinate of the rect, the old grid's value where the old grid
\* covers the coordinate (0 included) and the fallback elsewhere: the value,
\* or what the fill function gives for the coordinate; the old grid is as it
\* was.
C27_GridBlit ==
    [][(last'.who = "grid" /\ last'.ops[1].op \in {"blit", "blitGen"}) =>
          /\ getRect(sim') = last'.ops[1].arg.rect
          /\ Len(sim'.data) = sim'.width * sim'.height
          /\ \A x \in GridXs, y \in GridYs :
                InRect(last'.ops[1].arg.rect, x, y) =>
                    GridGet(sim', x, y) =
                        IF InRect(getRect(sim), x, y) THEN GridGet(sim, x, y)
                        ELSE IF last'.ops[1].op = "blit" THEN last'.ops[1].arg.value
                        ELSE Generate(last'.ops[1].arg.gen, x, y)
          /\ preApply' = sim]_vars

\* a grid was built with fallback 1 from a grid it overlaps in part: it kept
\* a 0 of the old grid and has a coordinate the old grid did not cover
C27_Witness ==
    /\ last.who = "grid"
    /\ last.ops[1].op = "blit"
    /\ last.ops[1].arg.value = 1
    /\ \E x \in GridXs, y \in GridYs :
          GridIn(sim, x, y) /\ GridIn(preApply, x, y) /\ GridGet(sim, x, y) = 0
    /\ \E x \in GridXs, y \in GridYs :
          GridIn(sim, x, y) /\ ~ GridIn(preApply, x, y)

(***************************************************************************)
(* color.ts and the PixelFont constructor: functions of their arguments.   *)
(* `sim` is the call (function and arguments), `last` what it returned,    *)
(* `preApply` the string colorToString made of a parsed color.             *)
(* Numbers are exact fractions: a channel c of mixColor stands for         *)
(* c / ColorScale, an amount k for k / AmountScale.                        *)
(***************************************************************************)
ColorScale == 2

AmountScale == 2

MaxMetrics == 9

\* EPSILON = 0.00001, as a fraction
EPSILON == [n |-> 1, d |-> 100000]

\* the colors handed to mixColor: opaque red and blue, blue without alpha,
\* transparent green, half-transparent grey
MixColors ==
    { <<ColorScale, 0, 0, ColorScale>>, <<0, 0, ColorScale, ColorScale>>,
      <<0, 0, ColorScale>>, <<0, ColorScale, 0, 0>>, <<1, 1, 1, 1>> }

\* color[3] ?? 1.0
AlphaOf(color) == IF Len(color) >= 4 THEN color[4] ELSE ColorScale

\* color[3] ?? 1.0 <= EPSILON, which JavaScript reads as
\* color[3] ?? (1.0 <= EPSILON): a number is true when it is not 0
AlphaTest(color) == IF Len(color) >= 4 THEN color[4] # 0 ELSE 1 * EPSILON.d <= EPSILON.n

\* mixColor(left, right, amount): the channels of the result, each as the
\* numerator of a fraction over ColorScale * AmountScale
mixColor(left, right, amount) ==
    LET r == left[1] * (AmountScale - amount) + right[1] * amount
        g == left[2] * (AmountScale - amount) + right[2] * amount
        b == left[3] * (AmountScale - amount) + right[3] * amount
        a == AlphaOf(left) * (AmountScale - amount) + AlphaOf(right) * amount
    IN IF AlphaTest(left)
       THEN << right[1] * AmountScale, right[2] * AmountScale, right[3] * AmountScale, a >>
       ELSE IF AlphaTest(right)
       THEN << left[1] * AmountScale, left[2] * AmountScale, left[3] * AmountScale, a >>
       ELSE << r, g, b, a >>

\* numbers of colorFromHex and colorToString: a fraction n / d ("num"), the
\* value srgbToLinear gives for it ("lin"), the value linearToSrgb gives for
\* it ("srgb"), or NaN; 0 and 1 are written Num(0, 1) and Num(1, 1)
Num(n, d) ==
    IF n = 0 THEN [k |-> "num", n |-> 0, d |-> 1]
    ELSE IF n = d THEN [k |-> "num", n |-> 1, d |-> 1]
    ELSE [k |-> "num", n |-> n, d |-> d]

NaN == [k |-> "nan", n |-> 0, d |-> 1]

\* srgbToLinear: 0 and 1 are mapped to themselves, NaN to NaN
srgbToLinear(value) ==
    IF value.k = "nan" \/ value = Num(0, 1) \/ value = Num(1, 1) THEN value
    ELSE IF value.k = "srgb" THEN [value EXCEPT !.k = "num"]
    ELSE [value EXCEPT !.k = "lin"]

\* linearToSrgb: the inverse, after clamping to [0, 1]
linearToSrgb(value) ==
    IF value.k = "nan" \/ value = Num(0, 1) \/ value = Num(1, 1) THEN value
    ELSE IF value.k = "num" /\ value.n > value.d THEN Num(1, 1)
    ELSE IF value.k = "num" /\ value.n < 0 THEN Num(0, 1)
    ELSE IF value.k = "lin" THEN [value EXCEPT !.k = "num"]
    ELSE [value EXCEPT !.k = "srgb"]

\* value * 255
Times255(value) ==
    IF value.k = "num" /\ (value.n * 255) % value.d = 0
    THEN [k |-> "num", n |-> (value.n * 255) \div value.d, d |-> 1]
    ELSE [value EXCEPT !.n = @ * 255]

HexChars == << "0", "1", "2", "3", "4", "5", "6", "7", "8", "9", "a", "b", "c", "d", "e", "f" >>

IsHexChar(c) == \E i \in DOMAIN HexChars : HexChars[i] = c

DigitValue(c) == (CHOOSE i \in DOMAIN HexChars : HexChars[i] = c) - 1

IsDecimalChar(c) == IsHexChar(c) /\ DigitValue(c) <= 9

\* String.prototype.toLowerCase on the characters used
toLowerCase(hex) ==
    [i \in DOMAIN hex |-> IF hex[i] = "F" THEN "f" ELSE IF hex[i] = "G" THEN "g" ELSE hex[i]]

\* Number.parseInt(text, radix): the value of the longest prefix of digits of
\* the radix, NaN when there is none
RECURSIVE ParsePrefix(_, _, _)
ParsePrefix(text, radix, acc) ==
    IF text # <<>> /\ IsHexChar(Head(text)) /\ DigitValue(Head(text)) < radix
    THEN ParsePrefix(Tail(text), radix, acc * radix + DigitValue(Head(text)))
    ELSE acc

parseInt(text, radix) ==
    IF text # <<>> /\ IsHexChar(Head(text)) /\ DigitValue(Head(text)) < radix
    THEN [nan |-> FALSE, value |-> ParsePrefix(text, radix, 0)]
    ELSE [nan |-> TRUE, value |-> 0]

\* Number.parseInt(text, radix) / by
ParsedOver(text, radix, by) ==
    LET parsed == parseInt(text, radix)
    IN IF parsed.nan THEN NaN ELSE Num(parsed.value, by)

\* colorFromHex with the radix its two-digit branch hands to parseInt as a
\* parameter: the code hands none, which parseInt reads as 10
colorFromHexRadix(hexArg, radix) ==
    LET hex == toLowerCase(hexArg)
    IN IF hex = <<>> \/ hex[1] # "#" THEN << Num(0, 1), Num(0, 1), Num(0, 1) >>
       ELSE IF \E i \in 2..Len(hex) : ~ IsHexChar(hex[i])
       THEN << Num(0, 1), Num(0, 1), Num(0, 1) >>
       ELSE IF Len(hex) = 4 \/ Len(hex) = 5
       THEN [i \in 1..(Len(hex) - 1) |-> srgbToLinear(ParsedOver(<< hex[i + 1] >>, 16, 15))]
       ELSE IF Len(hex) = 7 \/ Len(hex) = 9
       THEN LET r == srgbToLinear(ParsedOver(SubSeq(hex, 2, 3), radix, 255))
                g == srgbToLinear(ParsedOver(SubSeq(hex, 4, 5), radix, 255))
                b == srgbToLinear(ParsedOver(SubSeq(hex, 6, 7), radix, 255))
            IN IF Len(hex) = 7 THEN << r, g, b >>
               ELSE << r, g, b, ParsedOver(SubSeq(hex, 8, 9), radix, 255) >>
       ELSE << Num(0, 1), Num(0, 1), Num(0, 1) >>

colorFromHex(hex) == colorFromHexRadix(hex, 10)

\* colorToString: the function name and the numbers of the string
colorToString(color) ==
    IF Len(color) = 3
    THEN [fn |-> "rgb", args |-> [i \in 1..3 |-> Times255(linearToSrgb(color[i]))]]
    ELSE IF Len(color) = 4
    THEN [fn |-> "rgba", args |-> [i \in 1..4 |-> Times255(linearToSrgb(color[i]))]]
    ELSE [fn |-> "black", args |-> <<>>]

HexInputs ==
    { <<"#", "f", "f", "f", "f", "f", "f">>,
      <<"#", "f", "f", "f">>,
      <<"#", "F", "F", "F">>,
      <<"#", "0", "0", "0", "0", "0", "0">>,
      <<"#", "1", "0", "1", "0", "1", "0">>,
      <<"#", "0", "f", "0", "f", "0", "f">>,
      <<"#", "f", "f", "f", "f", "f", "f", "f", "f">>,
      <<"#", "0", "0", "0", "f">>,
      <<"#", "1", "0", "f", "0", "f", "f", "8", "0">>,
      <<"#", "f", "f">>,
      <<"f", "f", "f", "f", "f", "f">>,
      <<"#", "f", "f", "g">>,
      <<"#", "g", "g", "g", "g", "g", "g">>,
      <<>>,
      <<"#">>,
      <<"#", "0", "0", "0">>,
      <<"#", "f", "0", "0", "f", "0">> }

\* the fields of line 4 of a .pfs resource: a number, a negative number, an
\* empty field, and two that are no numbers
FieldTokens == { << "8" >>, << "-", "2" >>, <<>>, << "x" >>, << "8", "x" >> }

\* lists of 0 to MaxMetrics fields, all "8" but at most one
FontFields ==
    { [i \in 1..k |-> IF i = at THEN t ELSE << "8" >>] :
        k \in 0..MaxMetrics, at \in 0..MaxMetrics, t \in FieldTokens }

\* the fields joined by ":"
RECURSIVE JoinFields(_)
JoinFields(fields) ==
    IF fields = <<>> THEN <<>>
    ELSE IF Len(fields) = 1 THEN fields[1]
    ELSE fields[1] \o << ":" >> \o JoinFields(Tail(fields))

\* line.split(":")
RECURSIVE Split(_, _)
Split(line, field) ==
    IF line = <<>> THEN << field >>
    ELSE IF Head(line) = ":" THEN << field >> \o Split(Tail(line), <<>>)
    ELSE Split(Tail(line), Append(field, Head(line)))

\* !Number.isNaN(+x) for the strings used: empty, or digits with an optional sign
IsNumeric(x) ==
    \/ x = <<>>
    \/ /\ \A i \in DOMAIN x : IsDecimalChar(x[i]) \/ (i = 1 /\ x[i] = "-")
       /\ \E i \in DOMAIN x : IsDecimalChar(x[i])

\* +x for such a string
ToNumber(x) ==
    IF x = <<>> THEN 0
    ELSE IF x[1] = "-" THEN 0 - ParsePrefix(Tail(x), 10, 0)
    ELSE ParsePrefix(x, 10, 0)

\* the constructor accepting seven metrics as well
PixelFont_lenient(hasLine, line, heightMode) ==
    LET metrics == IF hasLine THEN Split(line, <<>>) ELSE <<>>
    IN [ok |-> Len(metrics) \in {7, 8} /\ \A i \in DOMAIN metrics : IsNumeric(metrics[i]),
        width |-> 0, height |-> 0, yOffset |-> 0]

\* new PixelFont(pfs, heightMode), from line 4 of pfs (hasLine is false when
\* pfs has fewer than four lines): ok is false when the constructor throws
PixelFont(hasLine, line, heightMode) ==
    LET metrics == IF hasLine THEN Split(line, <<>>) ELSE <<>>
    IN IF Len(metrics) # 8 \/ ~ \A i \in DOMAIN metrics : IsNumeric(metrics[i])
       THEN [ok |-> FALSE, width |-> 0, height |-> 0, yOffset |-> 0]
       ELSE [ok |-> TRUE,
             width |-> ToNumber(metrics[1]),
             height |-> IF heightMode = "descender"
                        THEN ToNumber(metrics[4]) - ToNumber(metrics[5])
                        ELSE ToNumber(metrics[2]),
             yOffset |-> IF heightMode = "descender"
                         THEN ToNumber(metrics[3]) - ToNumber(metrics[4])
                         ELSE 0]

\* the glyph lines of a .pfs resource tried: a well-formed line, a line whose
\* codepoint is no number, one whose codepoint is empty, one that starts
\* with a number, and the same without ":" and bitmap
GlyphLines ==
    { lhs \o rest :
        lhs \in { << "6", "5" >>, << "x" >>, <<>>, << "6", "x" >> },
        rest \in { << ":", "b" >>, <<>> } }

\* Number.isNaN(value): true of the number NaN only, false of every string
NumberIsNaN(value) == value.type = "number" /\ value.nan

\* to_utf16(codepoint), as the list of code units; String.fromCharCode(NaN)
\* is the code unit 0
to_utf16(codepoint) ==
    IF codepoint.nan THEN << 0 >>
    ELSE IF codepoint.value > 65535
    THEN << ((codepoint.value - 65536) \div 1024) + 55296,
            ((codepoint.value - 65536) % 1024) + 56320 >>
    ELSE << codepoint.value >>

\* the callback of lines.slice(4).map: what it returns for a glyph line, or
\* that it throws
GlyphEntry(line) ==
    LET parts == Split(line, <<>>)
        lhs == [type |-> "string", nan |-> FALSE, text |-> parts[1]]
    IN IF NumberIsNaN(lhs)
       THEN [ok |-> FALSE, key |-> <<>>, hasBitmap |-> FALSE]
       ELSE [ok |-> TRUE, key |-> to_utf16(parseInt(lhs.text, 10)),
             hasBitmap |-> Len(parts) >= 2]

(***************************************************************************)
(* PixelFont.drawChar on a 2D context: a pixel of the target is the stack  *)
(* of the paints composited on it, bottom first, <<>> being transparent    *)
(***************************************************************************)
\* the pixels of one cell of the target, and one pixel of the next cell
CellPixels == {1, 2}

TargetPixels == {1, 2, 3}

\* what a pixel may hold before the call: nothing, or an earlier drawing
OldPaint == [fn |-> "old", args |-> <<>>]

PrevTargets == [TargetPixels -> { <<>>, << OldPaint >> }]

BlankTarget == [p \in TargetPixels |-> <<>>]

\* the glyphs of the font: the space, the full block, and a glyph whose
\* bitmap has the first pixel set and the second clear
DrawGlyphs == { " ", "block", "g" }

\* the glyph canvas: white where the bit of the bitmap is set
WhitePaint == [fn |-> "white", args |-> <<>>]

GlyphImage(glyph) ==
    [p \in CellPixels |->
        IF glyph = "block" \/ (glyph = "g" /\ p = 1) THEN << WhitePaint >> ELSE <<>>]

\* colors handed to drawChar: opaque red, blue without alpha, transparent
\* green, half-transparent red
DrawColors ==
    { << Num(1, 1), Num(0, 1), Num(0, 1), Num(1, 1) >>,
      << Num(0, 1), Num(0, 1), Num(1, 1) >>,
      << Num(0, 1), Num(1, 1), Num(0, 1), Num(0, 1) >>,
      << Num(1, 1), Num(0, 1), Num(0, 1), Num(1, 2) >> }

\* bg[3] ?? 1.0 as a condition: a number is true when it is not 0
AlphaTruthy(color) == IF Len(color) >= 4 THEN color[4].n # 0 ELSE TRUE

\* the opacity of a fill style or of an image pixel: 0 transparent,
\* 2 opaque, 1 in between; the alpha of rgba() is clamped to 1
PaintAlpha(paint) ==
    IF paint.fn \in {"atop", "out"} THEN 1
    ELSE IF paint.fn # "rgba" THEN 2
    ELSE IF paint.args[4].n = 0 THEN 0
    ELSE IF paint.args[4].n >= paint.args[4].d THEN 2
    ELSE 1

Opaque(pixel) ==
    /\ pixel # <<>>
    /\ PaintAlpha(pixel[1]) = 2
    /\ \A i \in DOMAIN pixel : pixel[i].fn # "out"

\* globalCompositeOperation on one pixel; src is <<>> or one paint
Composite(operation, dst, src) ==
    IF src = <<>> \/ PaintAlpha(src[1]) = 0 THEN dst
    ELSE IF operation = "source-over"
    THEN IF PaintAlpha(src[1]) = 2 THEN src ELSE dst \o src
    ELSE IF operation = "destination-out"
    THEN IF PaintAlpha(src[1]) = 2 \/ dst = <<>> THEN <<>>
         ELSE Append(dst, [fn |-> "out", args |-> src])
    ELSE IF operation = "destination-over"
    THEN IF Opaque(dst) THEN dst ELSE src \o dst
    ELSE \* source-atop
         IF dst = <<>> THEN <<>>
         ELSE IF PaintAlpha(src[1]) = 2 /\ Opaque(dst) THEN src
         ELSE Append(dst, [fn |-> "atop", args |-> src])

\* ctx.fillRect(sx, sy, width, height) with fillStyle = style
fillRect(target, operation, style) ==
    [p \in TargetPixels |->
        IF p \in CellPixels THEN Composite(operation, target[p], << style >>) ELSE target[p]]

\* ctx.drawImage(glyphCanvas, sx, sy)
drawImage(target, operation, image) ==
    [p \in TargetPixels |->
        IF p \in CellPixels THEN Composite(operation, target[p], image[p]) ELSE target[p]]

\* ctx.clearRect(sx, sy, width, height)
clearRect(target) ==
    [p \in TargetPixels |-> IF p \in CellPixels THEN <<>> ELSE target[p]]

\* PixelFont.drawChar of a glyph the font defines: the target after the call
drawCharPixels(target, glyph, fg, bg) ==
    IF glyph = " "
    THEN IF AlphaTruthy(bg) THEN fillRect(target, "source-over", colorToString(bg))
         ELSE target
    ELSE IF glyph = "block"
    THEN fillRect(target, "source-over", colorToString(fg))
    ELSE LET cleared == clearRect(target)
         IN IF AlphaTruthy(bg)
            THEN fillRect(drawImage(fillRect(cleared, "source-over", colorToString(bg)),
                                    "destination-out", GlyphImage(glyph)),
                          "destination-over", colorToString(fg))
            ELSE fillRect(drawImage(cleared, "source-over", GlyphImage(glyph)),
                          "source-atop", colorToString(fg))

PureCalls ==
    { [fn |-> "glyphLine", args |-> << line >>] : line \in GlyphLines }
    \cup
    { [fn |-> "drawChar", args |-> << target, glyph, fg, bg >>] :
        target \in PrevTargets, glyph \in DrawGlyphs, fg \in DrawColors, bg \in DrawColors }
    \cup
    { [fn |-> "mixColor", args |-> << left, right, amount >>] :
        left \in MixColors, right \in MixColors, amount \in 0..AmountScale }
    \cup { [fn |-> "colorFromHex", args |-> << hex >>] : hex \in HexInputs }
    \cup { [fn |-> "PixelFont", args |-> << TRUE, fields, heightMode >>] :
             fields \in FontFields, heightMode \in {"height", "descender"} }
    \cup { [fn |-> "PixelFont", args |-> << FALSE, <<>>, "height" >>] }

InitPure ==
    /\ sim \in PureCalls
    /\ pc = "call"
    /\ last = Last("new", <<>>)
    /\ preApply = <<>>
    /\ nOps = 0
    /\ opt = Options(0, FALSE, FALSE, FALSE, {})
    /\ fx = <<>>
    /\ it = [blk |-> 0, k |-> 0, awake |-> {}]
    /\ tickStart = <<>>
    /\ visits = <<>>
    /\ touched = {}
    /\ prev = <<>>
    /\ cbSet = {}
    /\ dropped = {}

CallMixColor ==
    /\ pc = "call"
    /\ sim.fn = "mixColor"
    /\ last' = Last("return", << mixColor(sim.args[1], sim.args[2], sim.args[3]) >>)
    /\ pc' = "done"
    /\ UNCHANGED <<sim, fx, opt, it, tickStart, preApply, visits, touched, prev, cbSet, dropped, nOps>>

CallColorFromHex ==
    /\ pc = "call"
    /\ sim.fn = "colorFromHex"
    /\ last' = Last("return", << colorFromHex(sim.args[1]) >>)
    /\ pc' = "parsed"
    /\ UNCHANGED <<sim, fx, opt, it, tickStart, preApply, visits, touched, prev, cbSet, dropped, nOps>>

CallColorToString ==
    /\ pc = "parsed"
    /\ preApply' = << colorToString(last.ops[1]) >>
    /\ pc' = "done"
    /\ UNCHANGED <<sim, fx, opt, it, tickStart, visits, touched, prev, last, cbSet, dropped, nOps>>

CallPixelFont ==
    /\ pc = "call"
    /\ sim.fn = "PixelFont"
    /\ last' = Last("return",
                    << PixelFont(sim.args[1], JoinFields(sim.args[2]), sim.args[3]) >>)
    /\ pc' = "done"
    /\ UNCHANGED <<sim, fx, opt, it, tickStart, preApply, visits, touched, prev, cbSet, dropped, nOps>>

\* the part of new PixelFont(pfs) that reads one glyph line
CallGlyphLine ==
    /\ pc = "call"
    /\ sim.fn = "glyphLine"
    /\ last' = Last("return", << GlyphEntry(sim.args[1]) >>)
    /\ pc' = "done"
    /\ UNCHANGED <<sim, fx, opt, it, tickStart, preApply, visits, touched, prev, cbSet, dropped, nOps>>

CallDrawChar ==
    /\ pc = "call"
    /\ sim.fn = "drawChar"
    /\ last' = Last("return",
                    << drawCharPixels(sim.args[1], sim.args[2], sim.args[3], sim.args[4]) >>)
    /\ pc' = "done"
    /\ UNCHANGED <<sim, fx, opt, it, tickStart, preApply, visits, touched, prev, cbSet, dropped, nOps>>

NextPure ==
    \/ CallDrawChar
    \/ CallGlyphLine
    \/ CallMixColor
    \/ CallColorFromHex
    \/ CallColorToString
    \/ CallPixelFont

SpecPure == InitPure /\ [][NextPure]_vars

\* alpha <= EPSILON for a channel of mixColor
AlphaLeEpsilon(color) == AlphaOf(color) * EPSILON.d <= ColorScale * EPSILON.n

\* C28 (as stated): mixColor(current, target, amount) is the per-channel
\* interpolation current * (1 - amount) + target * amount with a missing
\* alpha read as 1, but with the RGB of target when current's alpha is at
\* most 1e-5 and the RGB of current when target's alpha is; so amount = 0
\* gives current's channels.
C28_MixColorInterpolates ==
    (pc = "done" /\ sim.fn = "mixColor") =>
        LET current == sim.args[1]
            target == sim.args[2]
            amount == sim.args[3]
            mixed == last.ops[1]
        IN /\ mixed[4] = AlphaOf(current) * (AmountScale - amount) + AlphaOf(target) * amount
           /\ \A i \in 1..3 :
                 mixed[i] =
                    IF AlphaLeEpsilon(current) THEN target[i] * AmountScale
                    ELSE IF AlphaLeEpsilon(target) THEN current[i] * AmountScale
                    ELSE current[i] * (AmountScale - amount) + target[i] * amount
           /\ (amount = 0 /\ ~ AlphaLeEpsilon(current)) =>
                 \A i \in 1..3 : mixed[i] = current[i] * AmountScale

\* the string is "#" followed by 3, 4, 6 or 8 hexadecimal digits
WellFormedHex(hex) ==
    /\ Len(hex) \in {4, 5, 7, 9}
    /\ hex[1] = "#"
    /\ \A i \in 2..Len(hex) : IsHexChar(toLowerCase(hex)[i])

\* C29 (as stated): colorFromHex reads the digits of a well-formed string as
\* hexadecimal, so that "#ffffff" gives the channels 1, 1, 1 and colorToString
\* of it is rgb(255, 255, 255); any other string gives opaque black.
C29_HexParsed ==
    (pc = "done" /\ sim.fn = "colorFromHex") =>
        LET hex == sim.args[1]
            color == last.ops[1]
        IN /\ WellFormedHex(hex) => color = colorFromHexRadix(hex, 16)
           /\ hex = << "#", "f", "f", "f", "f", "f", "f" >> =>
                 /\ color = << Num(1, 1), Num(1, 1), Num(1, 1) >>
                 /\ preApply[1] = [fn |-> "rgb", args |-> << Num(255, 1), Num(255, 1), Num(255, 1) >>]
           /\ ~ WellFormedHex(hex) =>
                 /\ color = << Num(0, 1), Num(0, 1), Num(0, 1) >>
                 /\ preApply[1] = [fn |-> "rgb", args |-> << Num(0, 1), Num(0, 1), Num(0, 1) >>]

\* a field of line 4 is a decimal number with an optional sign
IsDecimalField(x) ==
    /\ x # <<>>
    /\ IsNumeric(x)

\* C30 (as stated): the constructor succeeds when line 4 holds 7 or 8 fields
\* that are all numbers, and throws on any other number of fields or on a
\* field that is no number.
C30_SevenOrEightMetrics ==
    (pc = "done" /\ sim.fn = "PixelFont") =>
        (last.ops[1].ok <=>
            /\ sim.args[1]
            /\ Len(sim.args[2]) \in {7, 8}
            /\ \A i \in DOMAIN sim.args[2] : IsDecimalField(sim.args[2][i]))

\* C30 (amended): the constructor succeeds exactly when line 4 holds 8 fields
\* each of which is a number or empty (an empty field converts to 0), and
\* throws otherwise: on 7 fields, on a missing line 4, on a field that is
\* neither; in height mode it takes the first two metrics as width and height.
C30_EightMetrics ==
    (pc = "done" /\ sim.fn = "PixelFont") =>
        /\ last.ops[1].ok <=>
              /\ sim.args[1]
              /\ Len(sim.args[2]) = 8
              /\ \A i \in DOMAIN sim.args[2] :
                    sim.args[2][i] = <<>> \/ IsDecimalField(sim.args[2][i])
        /\ (last.ops[1].ok /\ sim.args[3] = "height") =>
              /\ last.ops[1].width = ToNumber(sim.args[2][1])
              /\ last.ops[1].height = ToNumber(sim.args[2][2])
              /\ last.ops[1].yOffset = 0

\* the constructor has accepted eight metrics, one of them negative
C30_Witness ==
    /\ pc = "done"
    /\ sim.fn = "PixelFont"
    /\ last.ops[1].ok
    /\ \E i \in DOMAIN sim.args[2] : sim.args[2][i] = << "-", "2" >>

\* the constructor has rejected seven metrics that are all numbers
C30_WitnessSeven ==
    /\ pc = "done"
    /\ sim.fn = "PixelFont"
    /\ ~ last.ops[1].ok
    /\ Len(sim.args[2]) = 7
    /\ \A i \in DOMAIN sim.args[2] : IsDecimalField(sim.args[2][i])

\* the part of a glyph line before ":" is a decimal codepoint
IsCodepoint(text) == text # <<>> /\ \A i \in DOMAIN text : IsDecimalChar(text[i])

\* C31 (as stated): a glyph line whose part before ":" is no decimal
\* codepoint, or that has no ":" and bitmap, makes the constructor throw
\* instead of registering a glyph.
C31_MalformedGlyphRejected ==
    (pc = "done" /\ sim.fn = "glyphLine") =>
        LET parts == Split(sim.args[1], <<>>)
        IN (~ IsCodepoint(parts[1]) \/ Len(parts) < 2) => ~ last.ops[1].ok

\* C32: when render() comes to a cell whose glyph the font does not define,
\* drawChar returns without throwing and without drawing, and render() goes
\* on: every cell it was to draw is reached and its dirty flag cleared, and
\* every such cell whose glyph is defined is drawn.
C32_UndefinedGlyphContained ==
    [][(/\ HostCalls("render")
        /\ \E c \in last'.ops[1].arg.drawn :
              getChar(GridAt(sim.cells, c[1], c[2])) \notin last'.ops[1].arg.font) =>
          /\ last'.ops[1].arg.reached = last'.ops[1].arg.drawn
          /\ \A c \in last'.ops[1].arg.drawn :
                /\ ~ GridAt(sim'.dirty, c[1], c[2])
                /\ c \in last'.ops[1].arg.defined <=>
                      getChar(GridAt(sim.cells, c[1], c[2])) \in last'.ops[1].arg.font
          /\ ~ sim'.globalDirty]_vars

\* render() has come to a cell whose glyph is not defined and has drawn a
\* cell after it
C32_Witness ==
    /\ JustRendered
    /\ \E c \in last.ops[1].arg.reached \ last.ops[1].arg.defined :
          \E d \in last.ops[1].arg.defined : d[2] = c[2] /\ d[1] > c[1]

\* C33: the application phase of a tick invokes, for every cell in bounds
\* at that time, the transforms queued for it before or during the tick, each
\* once and in the order of the queue, and tick() returns with an empty
\* queue, so that no transform is invoked again by a later tick.
C33_UpdatesAppliedOnce ==
    [][last'.who = "apply" =>
          /\ sim'.actions = <<>>
          /\ \A i \in DOMAIN sim.cells.data :
                sim'.cells.data[i] =
                    Compose(sim.actions, GridCoordX(sim.cells, i), GridCoordY(sim.cells, i),
                            sim.cells.data[i])]_vars

\* a tick has applied an update that a callback queued during its sweep, and
\* a cell has changed
C33_Witness ==
    /\ last.who = "apply"
    /\ Len(preApply.actions) > Len(tickStart.actions)
    /\ \E a \in SeqRange(preApply.actions) : GridIn(sim.cells, a[1], a[2])
    /\ sim.cells # preApply.cells
    /\ sim.actions = <<>>

\* C34: the application phase works on the grids as the resize of the same
\* tick left them: an update queued for a coordinate outside these bounds
\* changes nothing (when no queued update is in bounds, cell states, dirty
\* flags, sleep flags and effect lists stay as they were), and the cell of an
\* update queued for a coordinate outside the bounds the tick began with but
\* inside the new ones ends with the queued transforms applied to the default
\* state.
C34_ResizeBeforeUpdates ==
    [][last'.who = "apply" =>
          /\ getRect(sim'.cells) = getRect(sim.cells)
          /\ (\A a \in SeqRange(sim.actions) : ~ InRect(getRect(sim.cells), a[1], a[2])) =>
                /\ sim'.cells = sim.cells
                /\ sim'.dirty = sim.dirty
                /\ sim'.asleep = sim.asleep
                /\ sim'.effectGrid = sim.effectGrid
          /\ \A a \in SeqRange(sim.actions) :
                (/\ InRect(getRect(sim.cells), a[1], a[2])
                 /\ ~ InRect(getRect(tickStart.cells), a[1], a[2])) =>
                    GridAt(sim'.cells, a[1], a[2]) =
                        Compose(sim.actions, a[1], a[2], defaultState)]_vars

\* a tick that shrank the bounds has discarded an update queued for a cell
\* it dropped, while a block was asleep
C34_Witness ==
    /\ last.who = "apply"
    /\ \E a \in SeqRange(preApply.actions) :
          /\ InRect(getRect(tickStart.cells), a[1], a[2])
          /\ ~ InRect(getRect(sim.cells), a[1], a[2])
    /\ \E i \in DOMAIN sim.asleep.data : sim.asleep.data[i]

\* a tick that grew the bounds has applied an update queued for a cell it
\* added
C34_WitnessGrown ==
    /\ last.who = "apply"
    /\ \E a \in SeqRange(preApply.actions) :
          /\ ~ InRect(getRect(tickStart.cells), a[1], a[2])
          /\ InRect(getRect(sim.cells), a[1], a[2])
          /\ GridAt(sim.cells, a[1], a[2]) = Alive

\* the state of the cell (x, y) after a tick of the reference simulation,
\* which calls onTick of the example on every cell of the bounds: the cell's
\* state when the tick began, with the update that onTick queues for it
ReferenceCell(s, x, y) ==
    LET result == GOLOnTick(s, GridAt(s.cells, x, y), x, y)
    IN IF result.ops # <<>> /\ result.ops[1].op = "update"
       THEN ApplyTransform(result.ops[1].arg, GridAt(s.cells, x, y))
       ELSE GridAt(s.cells, x, y)

\* C35 (as stated): with the rules of the Game-of-Life example and wake
\* radius 1 on bounds aligned to the blocks, the cell states after every
\* tick are those of the reference simulation, whatever set() calls the host
\* made between the ticks.
C35_SleepTransparent ==
    (opt.wakeRadius = 1 /\ last.who = "apply") =>
        \A i \in DOMAIN sim.cells.data :
            sim.cells.data[i] =
                ReferenceCell(tickStart, GridCoordX(sim.cells, i), GridCoordY(sim.cells, i))

\* iterAwake sweeps a block exactly when the sleep grid has an entry for it
\* and the entry is false
IsAwake(s, b) == GridIn(s.asleep, b[1], b[2]) /\ ~ GridAt(s.asleep, b[1], b[2])

\* the in-bounds cells whose effect list holds an effect that is not done
ActiveEffectCells(s, f) ==
    { <<GridCoordX(s.effectGrid, i), GridCoordY(s.effectGrid, i)>> :
        i \in { j \in DOMAIN s.effectGrid.data :
                  \E e \in SeqRange(s.effectGrid.data[j]) : ~ done(f[e]) } }

\* C36 (as stated): after every public operation, the sleep block of every
\* in-bounds cell whose effect list holds an effect that is not done is
\* awake, so that the next tick() sweeps it.
C36_ActiveEffectAwake ==
    pc = "idle" =>
        \A c \in ActiveEffectCells(sim, fx) : IsAwake(sim, BlockOf(c[1], c[2]))

\* the same wherever the sleep grid has an entry for the block of the cell
C36_ActiveEffectNotAsleep ==
    pc = "idle" =>
        \A c \in ActiveEffectCells(sim, fx) : ~ IsAsleep(sim, BlockOf(c[1], c[2]))

\* the effects that became done in the tick that has just returned
BecameDone == { e \in SeqRange(tickStart.effects) : done(fx[e]) }

\* C37 (as stated): when tick() returns, every in-bounds cell whose effect
\* list still holds an effect that became done in this tick is dirty.
C37_DoneEffectCellsDirty ==
    last.who = "apply" =>
        \A e \in BecameDone :
            \A i \in ListsWith(sim, e) : sim.dirty.data[i]

\* FadeEffect.tweakCell: the argument of the easing function,
\* tick > 0 ? tick / (length - 1) : 0, as the fraction n / d; a division by
\* zero shows as d = 0
FadeProgress(e) ==
    IF e.tick > 0 THEN [n |-> e.tick, d |-> e.length - 1] ELSE [n |-> 0, d |-> 1]

\* C39: every tweakCell call of a render() is made on an effect whose
\* progress tick is in 0..length-1, so that the argument of the easing
\* function is the quotient of a division by a positive number and lies in
\* [0, 1]; done() holds exactly when tick >= length.
C39_FadeProgressInRange ==
    /\ JustRendered =>
          \A t \in last.ops[1].arg.tweaks :
              LET e == fx[t[1]]
                  p == FadeProgress(e)
              IN /\ e.length >= 1
                 /\ e.tick \in 0..(e.length - 1)
                 /\ p.d > 0
                 /\ 0 <= p.n
                 /\ p.n <= p.d
    /\ \A e \in DOMAIN fx : done(fx[e]) <=> fx[e].tick >= fx[e].length

\* a render() has called tweakCell of an effect of length 1, whose length - 1
\* is zero, and of no other
C39_Witness ==
    /\ JustRendered
    /\ last.ops[1].arg.tweaks # {}
    /\ \A t \in last.ops[1].arg.tweaks : fx[t[1]].length = 1

\* a render() has called tweakCell of an effect at its last step before it
\* is done, tick = length - 1 > 0
C39_WitnessLast ==
    /\ JustRendered
    /\ \E t \in last.ops[1].arg.tweaks :
         fx[t[1]].tick > 0 /\ fx[t[1]].tick = fx[t[1]].length - 1

\* C40: whenever _globalDirty is false, no cell of the grid inside the rect
\* of the last render is dirty.
C40_GlobalDirtyCovers ==
    (~ sim.globalDirty /\ sim.previousRect # <<>>) =>
        \A i \in DOMAIN sim.dirty.data :
            InRect(sim.previousRect[1], GridCoordX(sim.dirty, i), GridCoordY(sim.dirty, i)) =>
                ~ sim.dirty.data[i]

\* after a tick, a render of a part of the grid has cleared _globalDirty
\* and the flags of the cells it covers, while a cell outside it is dirty
C40_Witness ==
    /\ ~ sim.globalDirty
    /\ sim.previousRect # <<>>
    /\ sim.currentTick > 0
    /\ JustRendered
    /\ last.ops[1].arg.dirtyBefore # {}
    /\ \E i \in DOMAIN sim.dirty.data :
         /\ ~ InRect(sim.previousRect[1], GridCoordX(sim.dirty, i), GridCoordY(sim.dirty, i))
         /\ sim.dirty.data[i]

\* C38 (as stated): after drawChar of a glyph the font defines, each pixel of
\* the cell holds what the same call leaves on a blank target, whatever the
\* target held before, and the pixel outside the cell holds what it held.
C38_DrawCharOverwrites ==
    (pc = "done" /\ sim.fn = "drawChar") =>
        LET blank == drawCharPixels(BlankTarget, sim.args[2], sim.args[3], sim.args[4])
        IN /\ \A p \in CellPixels : last.ops[1][p] = blank[p]
           /\ \A p \in TargetPixels \ CellPixels : last.ops[1][p] = sim.args[1][p]

\* the part of C38 that the three cases share: the pixel outside the cell
\* is left as it was, and a glyph other than the space and the full block
\* overwrites the cell
C38_GlyphOverwrites ==
    (pc = "done" /\ sim.fn = "drawChar") =>
        LET blank == drawCharPixels(BlankTarget, sim.args[2], sim.args[3], sim.args[4])
        IN /\ sim.args[2] \notin {" ", "block"} =>
                \A p \in CellPixels : last.ops[1][p] = blank[p]
           /\ \A p \in TargetPixels \ CellPixels : last.ops[1][p] = sim.args[1][p]

====
